---- MODULE Spec2Model ----
(***************************************************************************)
(* Model of the conversational analytics query engine of bsa-data:         *)
(*   - the in-memory session store and the chat turn (api/routes/chat.py)  *)
(*   - QueryParser.parse and resolve_society_name                          *)
(*     (api/services/query_parser.py, config/societies.py)                 *)
(*   - MetricsComputer.get_time_buckets (processing/metrics.py)            *)
(* Strings that the code inspects character by character (organization     *)
(* names) are sequences of one-character strings; dates are the integers   *)
(* year*10000 + month*100 + day, so that date order is integer order.      *)
(***************************************************************************)
EXTENDS Integers, Sequences, FiniteSets, TLC

VARIABLES
    \* ---- chat turns and the session store (chat.py)
    sessions,     \* _sessions: session id -> session dict
    uuidCount,    \* number of identifiers uuid.uuid4() has handed out
    pc,           \* per turn: position of the coroutine
    req,          \* per turn: ChatRequest.session_id
    session,      \* per turn: key of the dict bound to the local `session`
    prior,        \* per turn: previous_intent handed to QueryParser.parse
    intent,       \* per turn: intent returned by QueryParser.parse
    resp,         \* per turn: what the caller received
    snap,         \* per turn: the session as get_session_state returned it
    hist,         \* per stored session: the turns that ran on it, oldest first
    calls,        \* per turn: the attempts of the calls of each collaborator, and which failed
    db_session,   \* per turn: the turn holds an open database session
    last,         \* the request handled last
    \* ---- QueryParser.parse applied to one input
    pPc, pResponse, pPrev, pToday, pOut, pResolved,
    \* ---- MetricsComputer.get_time_buckets applied to one input
    bPc, granularity, start_date, end_date, current, buckets,
    \* ---- the review store and the runs of compute_all_metrics
    reviews,      \* public_review with sentiment_aspect: review id -> row
    mRun,         \* the last run of compute_all_metrics: arguments, store, result
    mPrev,        \* the run before it, when it had the same arguments
    mChanged,     \* the societies that got reviews between mPrev and mRun
    changedOrgs,  \* the societies that got reviews since mRun
    \* ---- the summary table, the vector index and the retrieval of a turn
    summary,      \* the rows of summary_metric, in the order they were added
    savedRuns,    \* the runs of 04_compute_metrics whose rows the table holds
    batch,        \* the run of 04_compute_metrics that is between its two commits
    index,        \* the documents of the vector index, in the order they were added
    indexedRuns,  \* the runs of 05_build_embeddings whose documents the index holds
    turn          \* the last retrieval: intent, search, metrics, snippets, coverage, answer

chatVars   == <<sessions, uuidCount, pc, req, session, prior, intent, resp, snap, hist, calls,
               db_session, last>>
parseVars  == <<pPc, pResponse, pPrev, pToday, pOut, pResolved>>
bucketVars == <<bPc, granularity, start_date, end_date, current, buckets>>
metricVars == <<reviews, mRun, mPrev, mChanged, changedOrgs>>
retrievalVars == <<summary, savedRuns, batch, index, indexedRuns, turn>>
vars       == <<chatVars, parseVars, bucketVars, metricVars, retrievalVars>>

-----------------------------------------------------------------------------
(* Python values *)

\* None, for optional strings
None == "None"
\* None, for Optional[date]
NoDate == 0

\* the value in the one-element set S; used as Only({F(x) : x \in {e}}) it
\* evaluates e once before F uses it
Only(S) == CHOOSE x \in S : TRUE

\* dict.get(key, default)
Get(d, k, default) == IF k \in DOMAIN d THEN d[k] ELSE default

-----------------------------------------------------------------------------
(* datetime.date *)

Year(d)  == d \div 10000
Month(d) == (d \div 100) % 100
Day(d)   == d % 100

IsLeap(y) == (y % 4 = 0 /\ y % 100 # 0) \/ y % 400 = 0

DaysInMonth(y, m) ==
    IF m = 2 THEN (IF IsLeap(y) THEN 29 ELSE 28)
    ELSE IF m \in {4, 6, 9, 11} THEN 30 ELSE 31

\* date(y, m, d) raises ValueError unless this holds
ValidDate(y, m, d) == y \in 1..9999 /\ m \in 1..12 /\ d \in 1..DaysInMonth(y, m)

\* date(y, m, d), for valid arguments
MkDate(y, m, d) == y * 10000 + m * 100 + d

\* date.isoformat(): the text "YYYY-MM-DD", as its three fields; None stays null
IsoFormat(d) == IF d = NoDate THEN <<>> ELSE <<Year(d), Month(d), Day(d)>>

\* the parse with the month and the day taken in the other order
FromIso_swapped(s) == IF Len(s) = 0 THEN NoDate ELSE MkDate(s[1], s[3], s[2])

\* pydantic's parse of an ISO date string (or null) into Optional[date]
FromIso(s) == IF Len(s) = 0 THEN NoDate ELSE MkDate(s[1], s[2], s[3])

-----------------------------------------------------------------------------
(* str.lower(), str.strip() and rapidfuzz.fuzz.ratio *)

UpperChars == <<"A","B","C","D","E","F","G","H","I","J","K","L","M",
                "N","O","P","Q","R","S","T","U","V","W","X","Y","Z">>
LowerChars == <<"a","b","c","d","e","f","g","h","i","j","k","l","m",
                "n","o","p","q","r","s","t","u","v","w","x","y","z">>

LowerChar(c) ==
    IF \E i \in 1..Len(UpperChars) : UpperChars[i] = c
    THEN LowerChars[CHOOSE i \in 1..Len(UpperChars) : UpperChars[i] = c]
    ELSE c

\* str.lower()
StrLower(s) == [i \in 1..Len(s) |-> LowerChar(s[i])] \o <<>>

\* str.strip(): leading and trailing whitespace removed
StrStrip(s) ==
    LET inked == {i \in 1..Len(s) : s[i] # " "}
    IN IF inked = {} THEN <<>>
       ELSE LET lo == CHOOSE i \in inked : \A j \in inked : i <= j
                hi == CHOOSE i \in inked : \A j \in inked : j <= i
            IN SubSeq(s, lo, hi)

SetMax(S) == CHOOSE m \in S : \A n \in S : n <= m

\* One row of the longest-common-subsequence table, from the row before it:
\* prev[j] is the LCS length of a prefix of a with b[1..j], and the new row is
\* that of the prefix extended by the character c. cand[k] is the length of a
\* common subsequence that pairs c with b[k] (or does without c); the row is
\* the running maximum of cand.
LcsNextRow(prev, c, b) ==
    Only({[j \in 1..Len(b) |-> SetMax({cand[k] : k \in 1..j})] \o <<>> :
          cand \in {[k \in 1..Len(b) |->
                        IF c = b[k] THEN (IF k = 1 THEN 0 ELSE prev[k - 1]) + 1
                        ELSE prev[k]] \o <<>>}})

RECURSIVE LcsRows(_, _, _, _)
LcsRows(a, b, i, prev) ==
    IF i > Len(a) THEN prev
    ELSE Only({LcsRows(a, b, i + 1, row) : row \in {LcsNextRow(prev, a[i], b)}})

\* length of the longest common subsequence of a and b; the table is built
\* with a row per character of the longer string
LcsLen(a, b) ==
    IF Len(a) = 0 \/ Len(b) = 0 THEN 0
    ELSE Only({LcsRows(x, y, 1, zero)[Len(y)] :
                   x \in {IF Len(a) >= Len(b) THEN a ELSE b},
                   y \in {IF Len(a) >= Len(b) THEN b ELSE a},
                   zero \in {[j \in 1..Len(IF Len(a) >= Len(b) THEN b ELSE a) |-> 0] \o <<>>}})

\* fuzz.ratio(a, b): the normalized Indel similarity 100 * 2*LCS / (|a|+|b|),
\* kept as the exact fraction num/den (100 when both strings are empty)
FuzzRatio(a, b) ==
    IF Len(a) + Len(b) = 0 THEN [num |-> 100, den |-> 1]
    ELSE [num |-> 200 * LcsLen(a, b), den |-> Len(a) + Len(b)]

\* r1 > r2, r1 >= r2 on fractions with positive denominators
RatioGT(r1, r2) == r1.num * r2.den > r2.num * r1.den
RatioGE(r1, r2) == r1.num * r2.den >= r2.num * r1.den

-----------------------------------------------------------------------------
(* config/societies.py: the registry *)

BUILDING_SOCIETIES ==
  <<
    [id |-> "nationwide",
     canonical_name |-> <<"N","a","t","i","o","n","w","i","d","e"," ","B","u","i","l","d","i","n","g"," ","S","o","c","i","e","t","y">>,
     aliases |-> <<
         <<"N","a","t","i","o","n","w","i","d","e">>,
         <<"N","a","t","i","o","n","w","i","d","e"," ","B","S">>,
         <<"N","B","S">>,
         <<"T","h","e"," ","N","a","t","i","o","n","w","i","d","e">>>>],
    [id |-> "coventry",
     canonical_name |-> <<"C","o","v","e","n","t","r","y"," ","B","u","i","l","d","i","n","g"," ","S","o","c","i","e","t","y">>,
     aliases |-> <<
         <<"C","o","v","e","n","t","r","y">>,
         <<"C","o","v","e","n","t","r","y"," ","B","S">>,
         <<"C","B","S">>>>],
    [id |-> "yorkshire",
     canonical_name |-> <<"Y","o","r","k","s","h","i","r","e"," ","B","u","i","l","d","i","n","g"," ","S","o","c","i","e","t","y">>,
     aliases |-> <<
         <<"Y","o","r","k","s","h","i","r","e">>,
         <<"Y","o","r","k","s","h","i","r","e"," ","B","S">>,
         <<"Y","B","S">>>>],
    [id |-> "skipton",
     canonical_name |-> <<"S","k","i","p","t","o","n"," ","B","u","i","l","d","i","n","g"," ","S","o","c","i","e","t","y">>,
     aliases |-> <<
         <<"S","k","i","p","t","o","n">>,
         <<"S","k","i","p","t","o","n"," ","B","S">>,
         <<"S","B","S">>>>],
    [id |-> "leeds",
     canonical_name |-> <<"L","e","e","d","s"," ","B","u","i","l","d","i","n","g"," ","S","o","c","i","e","t","y">>,
     aliases |-> <<
         <<"L","e","e","d","s">>,
         <<"L","e","e","d","s"," ","B","S">>,
         <<"L","B","S">>>>],
    [id |-> "principality",
     canonical_name |-> <<"P","r","i","n","c","i","p","a","l","i","t","y"," ","B","u","i","l","d","i","n","g"," ","S","o","c","i","e","t","y">>,
     aliases |-> <<
         <<"P","r","i","n","c","i","p","a","l","i","t","y">>,
         <<"P","r","i","n","c","i","p","a","l","i","t","y"," ","B","S">>,
         <<"P","B","S">>>>],
    [id |-> "west-brom",
     canonical_name |-> <<"W","e","s","t"," ","B","r","o","m","w","i","c","h"," ","B","u","i","l","d","i","n","g"," ","S","o","c","i","e","t","y">>,
     aliases |-> <<
         <<"W","e","s","t"," ","B","r","o","m">>,
         <<"W","e","s","t"," ","B","r","o","m","w","i","c","h">>,
         <<"W","e","s","t"," ","B","r","o","m","w","i","c","h"," ","B","S">>,
         <<"W","B","B","S">>,
         <<"T","h","e"," ","W","e","s","t"," ","B","r","o","m">>>>],
    [id |-> "newcastle",
     canonical_name |-> <<"N","e","w","c","a","s","t","l","e"," ","B","u","i","l","d","i","n","g"," ","S","o","c","i","e","t","y">>,
     aliases |-> <<
         <<"N","e","w","c","a","s","t","l","e">>,
         <<"N","e","w","c","a","s","t","l","e"," ","B","S">>,
         <<"N","B","S">>>>],
    [id |-> "nottingham",
     canonical_name |-> <<"N","o","t","t","i","n","g","h","a","m"," ","B","u","i","l","d","i","n","g"," ","S","o","c","i","e","t","y">>,
     aliases |-> <<
         <<"N","o","t","t","i","n","g","h","a","m">>,
         <<"N","o","t","t","i","n","g","h","a","m"," ","B","S">>,
         <<"T","h","e"," ","N","o","t","t","i","n","g","h","a","m">>,
         <<"N","B","S">>>>],
    [id |-> "cumberland",
     canonical_name |-> <<"C","u","m","b","e","r","l","a","n","d"," ","B","u","i","l","d","i","n","g"," ","S","o","c","i","e","t","y">>,
     aliases |-> <<
         <<"C","u","m","b","e","r","l","a","n","d">>,
         <<"C","u","m","b","e","r","l","a","n","d"," ","B","S">>,
         <<"T","h","e"," ","C","u","m","b","e","r","l","a","n","d">>>>],
    [id |-> "bath",
     canonical_name |-> <<"B","a","t","h"," ","B","u","i","l","d","i","n","g"," ","S","o","c","i","e","t","y">>,
     aliases |-> <<
         <<"B","a","t","h">>,
         <<"B","a","t","h"," ","B","S">>>>],
    [id |-> "beverley",
     canonical_name |-> <<"B","e","v","e","r","l","e","y"," ","B","u","i","l","d","i","n","g"," ","S","o","c","i","e","t","y">>,
     aliases |-> <<
         <<"B","e","v","e","r","l","e","y">>,
         <<"B","e","v","e","r","l","e","y"," ","B","S">>>>],
    [id |-> "buckinghamshire",
     canonical_name |-> <<"B","u","c","k","i","n","g","h","a","m","s","h","i","r","e"," ","B","u","i","l","d","i","n","g"," ","S","o","c","i","e","t","y">>,
     aliases |-> <<
         <<"B","u","c","k","i","n","g","h","a","m","s","h","i","r","e">>,
         <<"B","u","c","k","i","n","g","h","a","m","s","h","i","r","e"," ","B","S">>,
         <<"B","u","c","k","s"," ","B","S">>,
         <<"B","u","c","k","s">>>>],
    [id |-> "cambridge",
     canonical_name |-> <<"C","a","m","b","r","i","d","g","e"," ","B","u","i","l","d","i","n","g"," ","S","o","c","i","e","t","y">>,
     aliases |-> <<
         <<"C","a","m","b","r","i","d","g","e">>,
         <<"C","a","m","b","r","i","d","g","e"," ","B","S">>,
         <<"T","h","e"," ","C","a","m","b","r","i","d","g","e">>>>],
    [id |-> "chorley",
     canonical_name |-> <<"C","h","o","r","l","e","y"," ","B","u","i","l","d","i","n","g"," ","S","o","c","i","e","t","y">>,
     aliases |-> <<
         <<"C","h","o","r","l","e","y">>,
         <<"C","h","o","r","l","e","y"," ","B","S">>,
         <<"C","h","o","r","l","e","y"," ","&"," ","D","i","s","t","r","i","c","t">>>>],
    [id |-> "darlington",
     canonical_name |-> <<"D","a","r","l","i","n","g","t","o","n"," ","B","u","i","l","d","i","n","g"," ","S","o","c","i","e","t","y">>,
     aliases |-> <<
         <<"D","a","r","l","i","n","g","t","o","n">>,
         <<"D","a","r","l","i","n","g","t","o","n"," ","B","S">>>>],
    [id |-> "dudley",
     canonical_name |-> <<"D","u","d","l","e","y"," ","B","u","i","l","d","i","n","g"," ","S","o","c","i","e","t","y">>,
     aliases |-> <<
         <<"D","u","d","l","e","y">>,
         <<"D","u","d","l","e","y"," ","B","S">>>>],
    [id |-> "earl-shilton",
     canonical_name |-> <<"E","a","r","l"," ","S","h","i","l","t","o","n"," ","B","u","i","l","d","i","n","g"," ","S","o","c","i","e","t","y">>,
     aliases |-> <<
         <<"E","a","r","l"," ","S","h","i","l","t","o","n">>,
         <<"E","a","r","l"," ","S","h","i","l","t","o","n"," ","B","S">>,
         <<"E","S","B","S">>>>],
    [id |-> "ecology",
     canonical_name |-> <<"E","c","o","l","o","g","y"," ","B","u","i","l","d","i","n","g"," ","S","o","c","i","e","t","y">>,
     aliases |-> <<
         <<"E","c","o","l","o","g","y">>,
         <<"E","c","o","l","o","g","y"," ","B","S">>,
         <<"E","B","S">>>>],
    [id |-> "furness",
     canonical_name |-> <<"F","u","r","n","e","s","s"," ","B","u","i","l","d","i","n","g"," ","S","o","c","i","e","t","y">>,
     aliases |-> <<
         <<"F","u","r","n","e","s","s">>,
         <<"F","u","r","n","e","s","s"," ","B","S">>>>],
    [id |-> "hanley",
     canonical_name |-> <<"H","a","n","l","e","y"," ","E","c","o","n","o","m","i","c"," ","B","u","i","l","d","i","n","g"," ","S","o","c","i","e","t","y">>,
     aliases |-> <<
         <<"H","a","n","l","e","y"," ","E","c","o","n","o","m","i","c">>,
         <<"H","a","n","l","e","y">>,
         <<"T","h","e"," ","H","a","n","l","e","y">>>>],
    [id |-> "harpenden",
     canonical_name |-> <<"H","a","r","p","e","n","d","e","n"," ","B","u","i","l","d","i","n","g"," ","S","o","c","i","e","t","y">>,
     aliases |-> <<
         <<"H","a","r","p","e","n","d","e","n">>,
         <<"H","a","r","p","e","n","d","e","n"," ","B","S">>>>],
    [id |-> "hinckley-rugby",
     canonical_name |-> <<"H","i","n","c","k","l","e","y"," ","&"," ","R","u","g","b","y"," ","B","u","i","l","d","i","n","g"," ","S","o","c","i","e","t","y">>,
     aliases |-> <<
         <<"H","i","n","c","k","l","e","y"," ","&"," ","R","u","g","b","y">>,
         <<"H","i","n","c","k","l","e","y"," ","a","n","d"," ","R","u","g","b","y">>,
         <<"H","&","R">>,
         <<"H","R","B","S">>>>],
    [id |-> "leek-united",
     canonical_name |-> <<"L","e","e","k"," ","U","n","i","t","e","d"," ","B","u","i","l","d","i","n","g"," ","S","o","c","i","e","t","y">>,
     aliases |-> <<
         <<"L","e","e","k"," ","U","n","i","t","e","d">>,
         <<"L","e","e","k">>,
         <<"L","e","e","k"," ","B","S">>>>],
    [id |-> "loughborough",
     canonical_name |-> <<"L","o","u","g","h","b","o","r","o","u","g","h"," ","B","u","i","l","d","i","n","g"," ","S","o","c","i","e","t","y">>,
     aliases |-> <<
         <<"L","o","u","g","h","b","o","r","o","u","g","h">>,
         <<"L","o","u","g","h","b","o","r","o","u","g","h"," ","B","S">>,
         <<"T","h","e"," ","L","o","u","g","h","b","o","r","o","u","g","h">>>>],
    [id |-> "mansfield",
     canonical_name |-> <<"M","a","n","s","f","i","e","l","d"," ","B","u","i","l","d","i","n","g"," ","S","o","c","i","e","t","y">>,
     aliases |-> <<
         <<"M","a","n","s","f","i","e","l","d">>,
         <<"M","a","n","s","f","i","e","l","d"," ","B","S">>,
         <<"T","h","e"," ","M","a","n","s","f","i","e","l","d">>>>],
    [id |-> "market-harborough",
     canonical_name |-> <<"M","a","r","k","e","t"," ","H","a","r","b","o","r","o","u","g","h"," ","B","u","i","l","d","i","n","g"," ","S","o","c","i","e","t","y">>,
     aliases |-> <<
         <<"M","a","r","k","e","t"," ","H","a","r","b","o","r","o","u","g","h">>,
         <<"M","a","r","k","e","t"," ","H","a","r","b","o","r","o","u","g","h"," ","B","S">>,
         <<"M","H","B","S">>>>],
    [id |-> "marsden",
     canonical_name |-> <<"M","a","r","s","d","e","n"," ","B","u","i","l","d","i","n","g"," ","S","o","c","i","e","t","y">>,
     aliases |-> <<
         <<"M","a","r","s","d","e","n">>,
         <<"M","a","r","s","d","e","n"," ","B","S">>,
         <<"T","h","e"," ","M","a","r","s","d","e","n">>>>],
    [id |-> "melton-mowbray",
     canonical_name |-> <<"M","e","l","t","o","n"," ","M","o","w","b","r","a","y"," ","B","u","i","l","d","i","n","g"," ","S","o","c","i","e","t","y">>,
     aliases |-> <<
         <<"M","e","l","t","o","n"," ","M","o","w","b","r","a","y">>,
         <<"M","e","l","t","o","n">>,
         <<"M","M","B","S">>>>],
    [id |-> "monmouthshire",
     canonical_name |-> <<"M","o","n","m","o","u","t","h","s","h","i","r","e"," ","B","u","i","l","d","i","n","g"," ","S","o","c","i","e","t","y">>,
     aliases |-> <<
         <<"M","o","n","m","o","u","t","h","s","h","i","r","e">>,
         <<"M","o","n","m","o","u","t","h","s","h","i","r","e"," ","B","S">>,
         <<"M","o","n"," ","B","S">>>>],
    [id |-> "national-counties",
     canonical_name |-> <<"N","a","t","i","o","n","a","l"," ","C","o","u","n","t","i","e","s"," ","B","u","i","l","d","i","n","g"," ","S","o","c","i","e","t","y">>,
     aliases |-> <<
         <<"N","a","t","i","o","n","a","l"," ","C","o","u","n","t","i","e","s">>,
         <<"N","a","t","i","o","n","a","l"," ","C","o","u","n","t","i","e","s"," ","B","S">>,
         <<"N","C","B","S">>,
         <<"F","a","m","i","l","y"," ","B","u","i","l","d","i","n","g"," ","S","o","c","i","e","t","y">>>>],
    [id |-> "newbury",
     canonical_name |-> <<"N","e","w","b","u","r","y"," ","B","u","i","l","d","i","n","g"," ","S","o","c","i","e","t","y">>,
     aliases |-> <<
         <<"N","e","w","b","u","r","y">>,
         <<"N","e","w","b","u","r","y"," ","B","S">>>>],
    [id |-> "penrith",
     canonical_name |-> <<"P","e","n","r","i","t","h"," ","B","u","i","l","d","i","n","g"," ","S","o","c","i","e","t","y">>,
     aliases |-> <<
         <<"P","e","n","r","i","t","h">>,
         <<"P","e","n","r","i","t","h"," ","B","S">>>>],
    [id |-> "progressive",
     canonical_name |-> <<"P","r","o","g","r","e","s","s","i","v","e"," ","B","u","i","l","d","i","n","g"," ","S","o","c","i","e","t","y">>,
     aliases |-> <<
         <<"P","r","o","g","r","e","s","s","i","v","e">>,
         <<"P","r","o","g","r","e","s","s","i","v","e"," ","B","S">>,
         <<"T","h","e"," ","P","r","o","g","r","e","s","s","i","v","e">>>>],
    [id |-> "saffron",
     canonical_name |-> <<"S","a","f","f","r","o","n"," ","B","u","i","l","d","i","n","g"," ","S","o","c","i","e","t","y">>,
     aliases |-> <<
         <<"S","a","f","f","r","o","n">>,
         <<"S","a","f","f","r","o","n"," ","B","S">>>>],
    [id |-> "scottish",
     canonical_name |-> <<"S","c","o","t","t","i","s","h"," ","B","u","i","l","d","i","n","g"," ","S","o","c","i","e","t","y">>,
     aliases |-> <<
         <<"S","c","o","t","t","i","s","h">>,
         <<"S","c","o","t","t","i","s","h"," ","B","S">>,
         <<"S","B","S">>>>],
    [id |-> "stafford-railway",
     canonical_name |-> <<"S","t","a","f","f","o","r","d"," ","R","a","i","l","w","a","y"," ","B","u","i","l","d","i","n","g"," ","S","o","c","i","e","t","y">>,
     aliases |-> <<
         <<"S","t","a","f","f","o","r","d"," ","R","a","i","l","w","a","y">>,
         <<"S","t","a","f","f","o","r","d"," ","R","a","i","l","w","a","y"," ","B","S">>,
         <<"S","R","B","S">>>>],
    [id |-> "suffolk",
     canonical_name |-> <<"S","u","f","f","o","l","k"," ","B","u","i","l","d","i","n","g"," ","S","o","c","i","e","t","y">>,
     aliases |-> <<
         <<"S","u","f","f","o","l","k">>,
         <<"S","u","f","f","o","l","k"," ","B","S">>,
         <<"I","p","s","w","i","c","h"," ","B","u","i","l","d","i","n","g"," ","S","o","c","i","e","t","y">>,
         <<"I","p","s","w","i","c","h"," ","B","S">>>>],
    [id |-> "swansea",
     canonical_name |-> <<"S","w","a","n","s","e","a"," ","B","u","i","l","d","i","n","g"," ","S","o","c","i","e","t","y">>,
     aliases |-> <<
         <<"S","w","a","n","s","e","a">>,
         <<"S","w","a","n","s","e","a"," ","B","S">>>>],
    [id |-> "teachers",
     canonical_name |-> <<"T","e","a","c","h","e","r","s"," ","B","u","i","l","d","i","n","g"," ","S","o","c","i","e","t","y">>,
     aliases |-> <<
         <<"T","e","a","c","h","e","r","s">>,
         <<"T","e","a","c","h","e","r","s"," ","B","S">>,
         <<"T","B","S">>>>],
    [id |-> "tipton",
     canonical_name |-> <<"T","i","p","t","o","n"," ","&"," ","C","o","s","e","l","e","y"," ","B","u","i","l","d","i","n","g"," ","S","o","c","i","e","t","y">>,
     aliases |-> <<
         <<"T","i","p","t","o","n"," ","&"," ","C","o","s","e","l","e","y">>,
         <<"T","i","p","t","o","n">>,
         <<"T","h","e"," ","T","i","p","t","o","n">>>>],
    [id |-> "vernon",
     canonical_name |-> <<"V","e","r","n","o","n"," ","B","u","i","l","d","i","n","g"," ","S","o","c","i","e","t","y">>,
     aliases |-> <<
         <<"V","e","r","n","o","n">>,
         <<"V","e","r","n","o","n"," ","B","S">>,
         <<"T","h","e"," ","V","e","r","n","o","n">>>>]
  >>

SocietyIds == {BUILDING_SOCIETIES[i].id : i \in 1..Len(BUILDING_SOCIETIES)}

\* A dict keeps a key at the position of its first insertion and the value of
\* its last: the dict is the sequence of its items [key, id] in key order.

\* d[key] = id
DictSet(d, key, id) ==
    IF \E p \in 1..Len(d) : d[p].key = key
    THEN [p \in 1..Len(d) |-> IF d[p].key = key THEN [key |-> key, id |-> id] ELSE d[p]]
         \o <<>>
    ELSE Append(d, [key |-> key, id |-> id])

\* the assignments d2 would make one after the other, made to d1
DictUpdate(d1, d2) ==
    Only({[p \in 1..Len(x) |->
              IF \E q \in 1..Len(y) : y[q].key = x[p].key
              THEN y[CHOOSE q \in 1..Len(y) : y[q].key = x[p].key]
              ELSE x[p]]
          \o SelectSeq(y, LAMBDA e : \A p \in 1..Len(x) : x[p].key # e.key) :
          x \in {d1}, y \in {d2}})

\* ALIAS_TO_SOCIETY_ID[name.lower()] = id for the names of one society:
\* its canonical name, then its aliases
RECURSIVE AddAliases(_, _, _, _)
AddAliases(d, names, id, i) ==
    IF i > Len(names) THEN d
    ELSE Only({AddAliases(d2, names, id, i + 1) :
                   d2 \in {DictSet(d, StrLower(names[i]), id)}})

SocietyAliases(s) ==
    Only({AddAliases(<<>>, names, BUILDING_SOCIETIES[s].id, 1) :
          names \in {<<BUILDING_SOCIETIES[s].canonical_name>> \o BUILDING_SOCIETIES[s].aliases}})

\* the loop `for society in BUILDING_SOCIETIES`, over societies lo..hi: the
\* assignments of the second half of the range follow those of the first
RECURSIVE BuildAliasMap(_, _)
BuildAliasMap(lo, hi) ==
    IF lo = hi THEN SocietyAliases(lo)
    ELSE DictUpdate(BuildAliasMap(lo, (lo + hi) \div 2),
                    BuildAliasMap((lo + hi) \div 2 + 1, hi))

ALIAS_TO_SOCIETY_ID == BuildAliasMap(1, Len(BUILDING_SOCIETIES))

\* `key in ALIAS_TO_SOCIETY_ID` and ALIAS_TO_SOCIETY_ID[key]
AliasKnown(k) == \E i \in 1..Len(ALIAS_TO_SOCIETY_ID) : ALIAS_TO_SOCIETY_ID[i].key = k
AliasId(k) ==
    ALIAS_TO_SOCIETY_ID[CHOOSE i \in 1..Len(ALIAS_TO_SOCIETY_ID) :
                            ALIAS_TO_SOCIETY_ID[i].key = k].id

-----------------------------------------------------------------------------
(* QueryParser.resolve_society_name *)

\* process.extractOne(query, choices, scorer=fuzz.ratio): the first choice of
\* the highest score, with that score; None (idx 0) when there is no choice
ExtractOne(query, choices) ==
    IF Len(choices) = 0 THEN [idx |-> 0, score |-> [num |-> 0, den |-> 1]]
    ELSE Only({CHOOSE m \in scored :
                   \A o \in scored :
                       /\ RatioGE(m.score, o.score)
                       /\ (o.idx < m.idx => RatioGT(m.score, o.score)) :
               scored \in {{[idx |-> i, score |-> FuzzRatio(query, choices[i])] :
                               i \in 1..Len(choices)}}})

\* match[1] >= 70
SimilarityThreshold == 70
\* the test written with > in place of >=
AcceptsMatch_strict(score) == RatioGT(score, [num |-> SimilarityThreshold, den |-> 1])
AcceptsMatch(score) == RatioGE(score, [num |-> SimilarityThreshold, den |-> 1])

\* the result (society_id, confidence): confidence is a fraction of 1
NoMatch == [society_id |-> None, confidence |-> [num |-> 0, den |-> 1]]

\* list(ALIAS_TO_SOCIETY_ID.keys())
AliasKeys == [i \in 1..Len(ALIAS_TO_SOCIETY_ID) |-> ALIAS_TO_SOCIETY_ID[i].key]

\* the fuzzy branch of resolve_society_name
FuzzyResolve(name_lower) ==
    Only({IF match.idx # 0 /\ AcceptsMatch(match.score)
          THEN [society_id |-> AliasId(AliasKeys[match.idx]),
                confidence |-> [num |-> match.score.num, den |-> match.score.den * 100]]
          ELSE NoMatch :
          match \in {ExtractOne(name_lower, AliasKeys)}})

resolve_society_name(name) ==
    Only({IF AliasKnown(name_lower)
          THEN [society_id |-> AliasId(name_lower), confidence |-> [num |-> 1, den |-> 1]]
          ELSE FuzzyResolve(name_lower) :
          name_lower \in {StrStrip(StrLower(name))}})

-----------------------------------------------------------------------------
(* data/schemas.py: QueryIntent *)

\* Optional[QueryIntent]: <<>> is None, <<i>> is the intent i
NoIntent == <<>>

\* QueryIntent(...) with the fields parse passes
QueryIntent(is_follow_up, primary, comparison, timeframe_type, timeframe_start, timeframe_end, focus_areas, question_type, sentiment_focus, detail_level) ==
    [is_follow_up                  |-> is_follow_up,
     primary_building_societies    |-> primary,
     comparison_building_societies |-> comparison,
     timeframe_type                |-> timeframe_type,
     timeframe_start               |-> timeframe_start,
     timeframe_end                 |-> timeframe_end,
     focus_areas                   |-> focus_areas,
     question_type                 |-> question_type,
     sentiment_focus               |-> sentiment_focus,
     detail_level                  |-> detail_level]

\* intent.model_dump(mode="json"): the dates become ISO strings
ModelDump(i) ==
    [i EXCEPT !.timeframe_start = IsoFormat(@), !.timeframe_end = IsoFormat(@)]

\* QueryIntent(**d) on a stored dict: pydantic parses the ISO strings back
QueryIntentFromDict(d) ==
    [d EXCEPT !.timeframe_start = FromIso(@), !.timeframe_end = FromIso(@)]

-----------------------------------------------------------------------------
(* QueryParser.parse *)

\* The names the model hands to resolve_society_name
N_yorkshire  == <<"Y","o","r","k","s","h","i","r","e">>
N_yorkshre   == <<"Y","o","r","k","s","h","r","e">>
N_zebra_bank == <<"Z","e","b","r","a"," ","B","a","n","k">>
N_leeds_pad  == <<" ","L","E","E","D","S"," ","B","S"," ">>
N_nbs        == <<"n","b","s">>
N_natwide_bk == <<"N","a","t","i","o","n","w","i","d","e"," ","B","a","n","k">>
N_natwest    == <<"N","a","t","W","e","s","t">>
N_skiptn     == <<"s","k","i","p","t","n">>
N_hsbc       == <<"H","S","B","C">>
N_nationwxyz == <<"N","a","t","i","o","n","w","x","y","z">>
N_covent_gdn == <<"C","o","v","e","n","t"," ","G","a","r","d","e","n">>
N_blank      == <<" ">>
N_coventry   == <<"C","o","v","e","n","t","r","y"," ","B","u","i","l","d","i","n","g",
                  " ","S","o","c","i","e","t","y">>
NameInputs == {N_yorkshire, N_yorkshre, N_zebra_bank, N_leeds_pad, N_nbs, N_natwide_bk,
               N_natwest, N_skiptn, N_hsbc, N_nationwxyz, N_covent_gdn, N_blank,
               N_coventry}

\* resolve_society_name on every name of the model, computed once
ResolveCache == [n \in NameInputs |-> resolve_society_name(n)]

\* the loop `for name in ...: society_id, _ = resolve(name); if society_id: append`
RECURSIVE ResolveNames(_)
ResolveNames(names) ==
    IF Len(names) = 0 THEN <<>>
    ELSE LET r == ResolveCache[Head(names)]
         IN (IF r.society_id # None THEN <<r.society_id>> ELSE <<>>)
            \o ResolveNames(Tail(names))

\* the branch taken whenever there is a previous intent, whatever the flag
IsFollowUp_noflag(parsed, previous_intent) == previous_intent # NoIntent
\* the follow-up branch: may the new turn inherit from previous_intent
IsFollowUp(parsed, previous_intent) ==
    Get(parsed, "is_follow_up", FALSE) /\ previous_intent # NoIntent

\* parsed after `parsed["timeframe_type"] = previous_intent.timeframe_type`
FollowUpTimeframe(parsed, previous_intent) ==
    IF /\ IsFollowUp(parsed, previous_intent)
       /\ Get(parsed, "timeframe_type", None) = "all_available"
    THEN [k \in DOMAIN parsed \cup {"timeframe_type"} |->
             IF k = "timeframe_type" THEN previous_intent[1].timeframe_type ELSE parsed[k]]
    ELSE parsed

\* the first day of the month `back` months before today's month, as the code
\* computes it: the arguments of date(year, month, 1)
CovidStart == 20200301
TimeframeArgs(parsed, today) ==
    LET tt == Get(parsed, "timeframe_type", None)
    IN IF tt = "last_12_months" THEN
            [start |-> <<Year(today) - 1, Month(today), 1>>, end |-> <<>>]
       ELSE IF tt = "last_24_months" THEN
            [start |-> <<Year(today) - 2, Month(today), 1>>, end |-> <<>>]
       ELSE IF tt = "calendar_year" THEN
            LET year == Get(parsed, "calendar_year", Year(today))
            IN [start |-> <<year, 1, 1>>, end |-> <<year, 12, 31>>]
       ELSE IF tt = "since_covid" THEN
            [start |-> <<Year(CovidStart), Month(CovidStart), Day(CovidStart)>>, end |-> <<>>]
       ELSE IF tt = "recent_generic" THEN
            [start |-> <<Year(today), Month(today) - 6, 1>>, end |-> <<>>]
       ELSE [start |-> <<>>, end |-> <<>>]

\* date(*args) raises ValueError
ArgsRaise(args) == Len(args) # 0 /\ ~ValidDate(args[1], args[2], args[3])

\* The external parser's answer to chat.completions.create:
\*   kind "unavailable": the call raises (network, timeout, authentication)
\*   kind "malformed":   no tool call, or arguments that json.loads rejects
\*   kind "ok":          `parsed`, the dict json.loads returns
\* parse returns [raised |-> TRUE] when an exception leaves it, and the intent
\* otherwise.
parse(response, previous_intent, today) ==
    IF response.kind # "ok" THEN [raised |-> TRUE]
    ELSE
    LET parsed0 == response.parsed
        own_primary == ResolveNames(Get(parsed0, "primary_building_societies", <<>>))
        own_comparison == ResolveNames(Get(parsed0, "comparison_building_societies", <<>>))
        follow == IsFollowUp(parsed0, previous_intent)
        resolved_primary ==
            IF follow /\ own_primary = <<>>
            THEN previous_intent[1].primary_building_societies ELSE own_primary
        resolved_comparison ==
            IF follow /\ own_comparison = <<>>
            THEN previous_intent[1].comparison_building_societies ELSE own_comparison
        parsed == FollowUpTimeframe(parsed0, previous_intent)
        args == TimeframeArgs(parsed, today)
    IN IF ArgsRaise(args.start) \/ ArgsRaise(args.end) THEN [raised |-> TRUE]
       ELSE [raised |-> FALSE,
             intent |-> QueryIntent(
                 Get(parsed, "is_follow_up", FALSE),
                 resolved_primary,
                 resolved_comparison,
                 Get(parsed, "timeframe_type", "all_available"),
                 IF Len(args.start) = 0 THEN NoDate
                     ELSE MkDate(args.start[1], args.start[2], args.start[3]),
                 IF Len(args.end) = 0 THEN today
                     ELSE MkDate(args.end[1], args.end[2], args.end[3]),
                 Get(parsed, "focus_areas", <<"overall">>),
                 Get(parsed, "question_type", "overall_sentiment"),
                 Get(parsed, "sentiment_focus", "all"),
                 Get(parsed, "detail_level", "standard"))]

-----------------------------------------------------------------------------
(* api/routes/chat.py: the session store and the chat turn *)

\* bounds of the model
MaxTurns == 2
MaxUuid == 2

Turns == 1..MaxTurns

\* the identifiers uuid.uuid4() hands out: never repeated, never a client's guess
Uuid(n) == "uuid-" \o ToString(n)

\* session ids a caller supplies on its own: none, the empty string, or a name
\* of its choosing; it may also send back any identifier it was given
ClientIds == {None, "", "s1"}

\* Python truthiness of an Optional[str]
Truthy(s) == s # None /\ s # ""

\* d[k] = v on a dict
Put(d, k, v) == [x \in DOMAIN d \cup {k} |-> IF x = k THEN v ELSE d[x]]
\* del d[k]
Del(d, k) == [x \in DOMAIN d \ {k} |-> d[x]]
\* the empty dict
EmptyDict == [x \in {} |-> x]

\* get_session_state without its first test: a session is created on every call
get_session_state_overwrite(store, session_id, uuid) ==
    LET new_id == IF Truthy(session_id) THEN session_id ELSE uuid
    IN [store |-> Put(store, new_id,
                      [id |-> new_id, previous_intent |-> <<>>, turn_count |-> 0]),
        key |-> new_id, created |-> TRUE]
\* get_session_state(session_id) on the store: the store afterwards, the key of
\* the dict returned, and whether it was created; uuid is what uuid4() returns
get_session_state(store, session_id, uuid) ==
    IF Truthy(session_id) /\ session_id \in DOMAIN store
    THEN [store |-> store, key |-> session_id, created |-> FALSE]
    ELSE LET new_id == IF Truthy(session_id) THEN session_id ELSE uuid
         IN [store |-> Put(store, new_id,
                           [id |-> new_id, previous_intent |-> <<>>, turn_count |-> 0]),
             key |-> new_id, created |-> TRUE]

\* session["turn_count"] += 1
BumpTurnCount(store, key) == [store EXCEPT ![key].turn_count = @ + 1]

\* previous_intent = session.get("previous_intent");
\* if previous_intent: previous_intent = QueryIntent(**previous_intent)
LoadPreviousIntent(store, key) ==
    LET stored == store[key].previous_intent
    IN IF stored # <<>> THEN <<QueryIntentFromDict(stored[1])>> ELSE NoIntent

\* session["previous_intent"] = intent.model_dump(mode="json")
StoreIntent(store, key, i) == [store EXCEPT ![key].previous_intent = <<ModelDump(i)>>]

\* what the external parser answers in the chat model
ParsedA == [is_follow_up |-> FALSE,
            primary_building_societies |-> <<N_yorkshire>>,
            comparison_building_societies |-> <<>>,
            timeframe_type |-> "last_12_months",
            focus_areas |-> <<"overall">>,
            question_type |-> "overall_sentiment",
            sentiment_focus |-> "all",
            detail_level |-> "standard"]
ParsedB == [is_follow_up |-> TRUE,
            primary_building_societies |-> <<>>,
            comparison_building_societies |-> <<N_leeds_pad>>,
            timeframe_type |-> "all_available",
            focus_areas |-> <<"mobile_app">>,
            question_type |-> "comparison",
            sentiment_focus |-> "mostly_negative",
            detail_level |-> "brief"]
ChatResponses == {[kind |-> "unavailable"],
                  [kind |-> "ok", parsed |-> ParsedA],
                  [kind |-> "ok", parsed |-> ParsedB]}

\* date.today() during the chat model
ChatToday == 20240315

\* what happens after the await of the embedding call: the embedding call, the
\* vector search, get_data_coverage or the answer generator may raise
ResumeOutcomes == {"ok", "embedding_failed", "search_failed", "coverage_failed",
                   "answer_failed"}

\* stop_after_attempt(3) on EmbeddingGenerator._embed_single
StopAfterAttempt == 3

\* the attempts a turn has made of its last call of each collaborator, and
\* the collaborator whose failure failed the turn
NoCalls == [parser |-> 0, store |-> 0, embedding |-> 0, search |-> 0, failed |-> None]

\* the thread of the event loop is not inside a blocking call: chat is a
\* coroutine and QueryParser.parse calls the synchronous client, so while a
\* turn waits for the parser no other coroutine runs
LoopFree == \A u \in Turns : pc[u] # "parsing"

\* chat(request), from its start to the call of the parser inside
\* query_parser.parse (chat.py 47-60, query_parser.py 214)
chat_begin(t, sid) ==
    /\ LoopFree
    /\ pc[t] = "idle"
    /\ \A u \in Turns : u < t => pc[u] # "idle"
    /\ Truthy(sid) \/ uuidCount < MaxUuid
    /\ \E g \in {get_session_state(sessions, sid, Uuid(uuidCount + 1))} :
       \E s1 \in {BumpTurnCount(g.store, g.key)} :
          /\ sessions' = s1
          /\ uuidCount' = IF Truthy(sid) THEN uuidCount ELSE uuidCount + 1
          /\ req' = [req EXCEPT ![t] = sid]
          /\ session' = [session EXCEPT ![t] = g.key]
          /\ prior' = [prior EXCEPT ![t] = LoadPreviousIntent(s1, g.key)]
          /\ snap' = [snap EXCEPT ![t] =
                         [created |-> g.created,
                          previous_intent |-> g.store[g.key].previous_intent,
                          turn_count |-> g.store[g.key].turn_count]]
          /\ hist' = [k \in DOMAIN s1 |->
                         IF k = g.key
                         THEN (IF k \in DOMAIN sessions THEN hist[k] ELSE <<>>) \o <<t>>
                         ELSE hist[k]]
    /\ pc' = [pc EXCEPT ![t] = "parsing"]
    /\ calls' = [calls EXCEPT ![t].parser = 1]
    /\ last' = [op |-> "chat", arg |-> None]
    /\ UNCHANGED <<intent, resp, db_session>>
    /\ UNCHANGED <<parseVars, bucketVars, metricVars, retrievalVars>>

\* chat(request), from the parser's answer to the await inside
\* get_evidence_snippets (query_parser.py 214-280, chat.py 60-76).
\* store_ok: get_engine, get_session, VectorIndex() and get_metrics succeed.
chat_parsed(t, response, store_ok) ==
    /\ pc[t] = "parsing"
    /\ \E r \in {parse(response, prior[t], ChatToday)} :
          /\ sessions' = IF r.raised THEN sessions
                         ELSE StoreIntent(sessions, session[t], r.intent)
          /\ intent' = [intent EXCEPT ![t] = IF r.raised THEN NoIntent ELSE <<r.intent>>]
          /\ pc' = [pc EXCEPT ![t] = IF r.raised \/ ~store_ok THEN "failed" ELSE "awaiting"]
          /\ resp' = [resp EXCEPT ![t] = IF r.raised \/ ~store_ok
                                          THEN [status |-> 500, session_id |-> None]
                                          ELSE @]
          /\ calls' = [calls EXCEPT ![t] =
                          [@ EXCEPT !.store = IF r.raised THEN 0 ELSE 1,
                                    !.embedding = IF r.raised \/ ~store_ok THEN 0 ELSE 1,
                                    !.failed = IF response.kind # "ok" THEN "parser"
                                               ELSE IF r.raised THEN "parse"
                                               ELSE IF ~store_ok THEN "store"
                                               ELSE None]]
          /\ db_session' = [db_session EXCEPT ![t] = ~r.raised /\ store_ok]
    /\ last' = [op |-> "chat", arg |-> None]
    /\ UNCHANGED <<uuidCount, req, session, prior, snap, hist>>
    /\ UNCHANGED <<parseVars, bucketVars, metricVars, retrievalVars>>

\* the attempt of _embed_single that the turn waits for fails and is not the
\* last one: the coroutine sleeps (wait_exponential) and calls again
chat_retry(t) ==
    /\ LoopFree
    /\ pc[t] = "awaiting"
    /\ calls[t].embedding < StopAfterAttempt
    /\ calls' = [calls EXCEPT ![t].embedding = @ + 1]
    /\ last' = [op |-> "chat", arg |-> None]
    /\ UNCHANGED <<sessions, uuidCount, pc, req, session, prior, intent, resp, snap, hist,
                   db_session>>
    /\ UNCHANGED <<parseVars, bucketVars, metricVars, retrievalVars>>

\* chat(request) from the await to its end, if it put its session dict back
\* into _sessions when it answers
chat_resume_writeback(t, outcome) ==
    /\ LoopFree
    /\ pc[t] = "awaiting"
    /\ outcome = "embedding_failed" => calls[t].embedding = StopAfterAttempt
    /\ pc' = [pc EXCEPT ![t] = IF outcome = "ok" THEN "responded" ELSE "failed"]
    /\ resp' = [resp EXCEPT ![t] = IF outcome = "ok"
                                    THEN [status |-> 200, session_id |-> session[t]]
                                    ELSE [status |-> 500, session_id |-> None]]
    /\ calls' = [calls EXCEPT ![t] =
                    [@ EXCEPT !.search = IF outcome = "embedding_failed" THEN 0 ELSE 1,
                              !.failed = IF outcome = "embedding_failed" THEN "embedding"
                                         ELSE IF outcome = "search_failed" THEN "search"
                                         ELSE IF outcome = "coverage_failed" THEN "store"
                                         ELSE IF outcome = "answer_failed" THEN "answer"
                                         ELSE None]]
    /\ db_session' = [db_session EXCEPT ![t] = FALSE]
    /\ last' = [op |-> "chat", arg |-> None]
    /\ sessions' = IF session[t] \in DOMAIN sessions THEN sessions
                   ELSE Put(sessions, session[t],
                            [id |-> session[t],
                             previous_intent |-> <<ModelDump(intent[t][1])>>,
                             turn_count |-> snap[t].turn_count + 1])
    /\ hist' = [k \in DOMAIN sessions' |-> IF k \in DOMAIN hist THEN hist[k] ELSE <<t>>]
    /\ UNCHANGED <<uuidCount, req, session, prior, intent, snap>>
    /\ UNCHANGED <<parseVars, bucketVars, metricVars, retrievalVars>>
\* chat(request), from the await to its end (lines 76-123); the embedding
\* call fails the turn when its last attempt has failed
chat_resume(t, outcome) ==
    /\ LoopFree
    /\ pc[t] = "awaiting"
    /\ outcome = "embedding_failed" => calls[t].embedding = StopAfterAttempt
    /\ pc' = [pc EXCEPT ![t] = IF outcome = "ok" THEN "responded" ELSE "failed"]
    /\ resp' = [resp EXCEPT ![t] = IF outcome = "ok"
                                    THEN [status |-> 200, session_id |-> session[t]]
                                    ELSE [status |-> 500, session_id |-> None]]
    /\ calls' = [calls EXCEPT ![t] =
                    [@ EXCEPT !.search = IF outcome = "embedding_failed" THEN 0 ELSE 1,
                              !.failed = IF outcome = "embedding_failed" THEN "embedding"
                                         ELSE IF outcome = "search_failed" THEN "search"
                                         ELSE IF outcome = "coverage_failed" THEN "store"
                                         ELSE IF outcome = "answer_failed" THEN "answer"
                                         ELSE None]]
    /\ db_session' = [db_session EXCEPT ![t] = FALSE]
    /\ last' = [op |-> "chat", arg |-> None]
    /\ UNCHANGED <<sessions, uuidCount, req, session, prior, intent, snap, hist>>
    /\ UNCHANGED <<parseVars, bucketVars, metricVars, retrievalVars>>

\* the caller abandons the turn while it is suspended: CancelledError is raised
\* at the await; it is no Exception, so `except Exception` lets it pass, and
\* the `finally` of get_session closes the database session
chat_cancel(t) ==
    /\ LoopFree
    /\ pc[t] = "awaiting"
    /\ pc' = [pc EXCEPT ![t] = "cancelled"]
    /\ db_session' = [db_session EXCEPT ![t] = FALSE]
    /\ last' = [op |-> "chat", arg |-> None]
    /\ UNCHANGED <<sessions, uuidCount, req, session, prior, intent, resp, snap, hist, calls>>
    /\ UNCHANGED <<parseVars, bucketVars, metricVars, retrievalVars>>

\* reset_session without its `return` for an id that is not stored
ResetStore_fallthrough(store, session_id) ==
    IF Truthy(session_id) /\ session_id \in DOMAIN store THEN Del(store, session_id)
    ELSE EmptyDict
\* the store after reset_session(session_id)
ResetStore(store, session_id) ==
    IF Truthy(session_id)
    THEN (IF session_id \in DOMAIN store THEN Del(store, session_id) ELSE store)
    ELSE EmptyDict

\* reset_session(session_id)
reset_session(sid) ==
    /\ LoopFree
    /\ sessions' = ResetStore(sessions, sid)
    /\ hist' = [k \in DOMAIN sessions' |-> hist[k]]
    /\ last' = [op |-> "reset", arg |-> sid]
    /\ UNCHANGED <<uuidCount, pc, req, session, prior, intent, resp, snap, calls, db_session>>
    /\ UNCHANGED <<parseVars, bucketVars, metricVars, retrievalVars>>

\* the ids a request may carry: the caller's own, or one a response carried
RequestIds == ClientIds \cup {resp[t].session_id : t \in {u \in Turns : resp[u].status = 200}}

ChatInit ==
    /\ sessions = EmptyDict
    /\ uuidCount = 0
    /\ pc = [t \in Turns |-> "idle"]
    /\ req = [t \in Turns |-> None]
    /\ session = [t \in Turns |-> None]
    /\ prior = [t \in Turns |-> NoIntent]
    /\ intent = [t \in Turns |-> NoIntent]
    /\ resp = [t \in Turns |-> [status |-> 0, session_id |-> None]]
    /\ snap = [t \in Turns |-> [created |-> FALSE, previous_intent |-> <<>>, turn_count |-> 0]]
    /\ hist = EmptyDict
    /\ calls = [t \in Turns |-> NoCalls]
    /\ db_session = [t \in Turns |-> FALSE]
    /\ last = [op |-> "none", arg |-> None]

ChatNext ==
    \/ \E t \in Turns, sid \in RequestIds : chat_begin(t, sid)
    \/ \E t \in Turns, response \in ChatResponses, store_ok \in BOOLEAN :
           chat_parsed(t, response, store_ok)
    \/ \E t \in Turns : chat_retry(t)
    \/ \E t \in Turns, outcome \in ResumeOutcomes : chat_resume(t, outcome)
    \/ \E t \in Turns : chat_cancel(t)
    \/ \E sid \in RequestIds : reset_session(sid)

-----------------------------------------------------------------------------
(* QueryParser.parse applied to one input *)

\* bound of the model: the year of date.today()
ParseYear == 2024
\* the day of the month of date.today()
ParseDay == 15
ParseDays == {MkDate(ParseYear, m, ParseDay) : m \in 1..12}

PrimaryLists == {<<>>} \cup {<<n>> : n \in NameInputs} \cup {<<N_zebra_bank, N_yorkshre>>}
ComparisonLists == {<<>>, <<N_leeds_pad>>}
TimeframeInputs == {"all_available", "last_12_months", "last_24_months", "calendar_year",
                    "since_covid", "recent_generic", "last_week"}

\* what the external parser may return: the schema's required keys, with
\* timeframe_type possibly outside the enumeration or left out, and with a
\* focus area possibly outside the enumeration
ParsedFull ==
    [is_follow_up : BOOLEAN,
     primary_building_societies : PrimaryLists,
     comparison_building_societies : ComparisonLists,
     timeframe_type : TimeframeInputs,
     focus_areas : {<<"mobile_app">>, <<"mobile_app", "crypto">>},
     question_type : {"trend_over_time"},
     sentiment_focus : {"all"},
     detail_level : {"standard"}]
WithoutKey(d, k) == [x \in DOMAIN d \ {k} |-> d[x]]
ParsedInputs ==
    ParsedFull
    \cup {WithoutKey(p, "timeframe_type") : p \in {q \in ParsedFull : q.timeframe_type = "all_available"}}
ParseResponses ==
    {[kind |-> "unavailable"], [kind |-> "malformed"]}
    \cup {[kind |-> "ok", parsed |-> p] : p \in ParsedInputs}

\* intents of a previous turn
PrevA == QueryIntent(FALSE, <<"yorkshire">>, <<>>, "last_12_months", 20230301, 20240315,
                     <<"overall">>, "overall_sentiment", "all", "standard")
PrevB == QueryIntent(TRUE, <<>>, <<"skipton", "leeds">>, "since_covid", 20200301, 20240315,
                     <<"branches">>, "comparison", "mostly_negative", "brief")
PrevInputs == {NoIntent, <<PrevA>>, <<PrevB>>}

\* the values of (society_id, confidence) in the loop over the primary names
PrimaryResolutions(response) ==
    IF response.kind # "ok" THEN <<>>
    ELSE LET names == Get(response.parsed, "primary_building_societies", <<>>)
         IN [i \in 1..Len(names) |-> ResolveCache[names[i]]]

parse_call ==
    /\ pPc = "input"
    /\ pOut' = parse(pResponse, pPrev, pToday)
    /\ pResolved' = PrimaryResolutions(pResponse)
    /\ pPc' = IF pOut'.raised THEN "raised" ELSE "returned"
    /\ UNCHANGED <<pResponse, pPrev, pToday>>
    /\ UNCHANGED <<chatVars, bucketVars, metricVars, retrievalVars>>

ParseInit ==
    /\ pPc = "input"
    /\ pResponse \in ParseResponses
    /\ pPrev \in PrevInputs
    /\ pToday \in ParseDays
    /\ pOut = [raised |-> TRUE]
    /\ pResolved = <<>>

ParseIdle ==
    /\ pPc = "off"
    /\ pResponse = [kind |-> "unavailable"]
    /\ pPrev = NoIntent
    /\ pToday = NoDate
    /\ pOut = [raised |-> TRUE]
    /\ pResolved = <<>>

-----------------------------------------------------------------------------
(* processing/metrics.py: MetricsComputer.get_time_buckets *)

\* bounds of the model: the dates get_time_buckets is called with
FirstYear == 2023
NumYears == 2
MidDay == 15
BucketDates ==
    {MkDate(y, m, d) : y \in FirstYear..(FirstYear + NumYears - 1), m \in 1..12,
                       d \in {1, MidDay}}
    \cup {MkDate(y, m, DaysInMonth(y, m)) : y \in FirstYear..(FirstYear + NumYears - 1),
                                           m \in 1..12}

MONTHLY == "monthly"
QUARTERLY == "quarterly"
YEARLY == "yearly"
GranularityInputs == {MONTHLY, QUARTERLY, YEARLY, "weekly"}

\* the monthly pass without min(bucket_end, end_date)
MonthlyStep_untruncated(cur, end) ==
    LET bucket_end == IF Month(cur) = 12 THEN MkDate(Year(cur) + 1, 1, 1)
                      ELSE MkDate(Year(cur), Month(cur) + 1, 1)
    IN [bucket |-> <<MkDate(Year(cur), Month(cur), 1), bucket_end>>,
        current |-> bucket_end]
\* the bucket appended and the next value of `current` in one pass of the loop
MonthlyStep(cur, end) ==
    LET bucket_end == IF Month(cur) = 12 THEN MkDate(Year(cur) + 1, 1, 1)
                      ELSE MkDate(Year(cur), Month(cur) + 1, 1)
    IN [bucket |-> <<MkDate(Year(cur), Month(cur), 1), IF bucket_end <= end THEN bucket_end ELSE end>>,
        current |-> bucket_end]

QuarterlyStep(cur, end) ==
    LET quarter_month == ((Month(cur) - 1) \div 3) * 3 + 1
        quarter_start == MkDate(Year(cur), quarter_month, 1)
        quarter_end == IF quarter_month + 3 > 12 THEN MkDate(Year(cur) + 1, 1, 1)
                       ELSE MkDate(Year(cur), quarter_month + 3, 1)
    IN [bucket |-> <<quarter_start, IF quarter_end <= end THEN quarter_end ELSE end>>,
        current |-> quarter_end]

YearlyStep(cur, end) ==
    LET year_start == MkDate(Year(cur), 1, 1)
        year_end == MkDate(Year(cur) + 1, 1, 1)
    IN [bucket |-> <<year_start, IF year_end <= end THEN year_end ELSE end>>,
        current |-> year_end]

\* one pass of `while current < end_date`
bucket_step ==
    /\ bPc = "loop"
    /\ current < end_date
    /\ granularity \in {MONTHLY, QUARTERLY, YEARLY}
    /\ LET s == IF granularity = MONTHLY THEN MonthlyStep(current, end_date)
                ELSE IF granularity = QUARTERLY THEN QuarterlyStep(current, end_date)
                ELSE YearlyStep(current, end_date)
       IN /\ buckets' = Append(buckets, s.bucket)
          /\ current' = s.current
    /\ UNCHANGED <<bPc, granularity, start_date, end_date>>
    /\ UNCHANGED <<chatVars, parseVars, metricVars, retrievalVars>>

\* raise ValueError(f"Unknown granularity: {granularity}")
bucket_raise ==
    /\ bPc = "loop"
    /\ current < end_date
    /\ granularity \notin {MONTHLY, QUARTERLY, YEARLY}
    /\ bPc' = "raised"
    /\ UNCHANGED <<granularity, start_date, end_date, current, buckets>>
    /\ UNCHANGED <<chatVars, parseVars, metricVars, retrievalVars>>

\* the loop ends: return buckets
bucket_return ==
    /\ bPc = "loop"
    /\ ~(current < end_date)
    /\ bPc' = "done"
    /\ UNCHANGED <<granularity, start_date, end_date, current, buckets>>
    /\ UNCHANGED <<chatVars, parseVars, metricVars, retrievalVars>>

BucketsInit ==
    /\ bPc = "loop"
    /\ granularity \in GranularityInputs
    /\ start_date \in BucketDates
    /\ end_date \in BucketDates
    /\ current = start_date
    /\ buckets = <<>>

BucketsIdle ==
    /\ bPc = "off"
    /\ granularity = MONTHLY
    /\ start_date = NoDate
    /\ end_date = NoDate
    /\ current = NoDate
    /\ buckets = <<>>

BucketsNext == bucket_step \/ bucket_raise \/ bucket_return

-----------------------------------------------------------------------------
(* processing/metrics.py: the review store and compute_all_metrics *)

\* the rows of the building_society table, in primary-key order
Societies == <<"coventry", "leeds", "nationwide">>

\* A text is the list of its runs of equal characters: n times the character c
Chars(c, n) == [c |-> c, n |-> n]

\* One row of public_review with its sentiment_aspect rows; scores are in
\* hundredths. The reviews the store may hold: nationwide has reviews on the
\* first date and, not yet enriched, on a month boundary; coventry inside
\* January and on the last date; leeds has none. The texts have 300, 40, 301
\* and 120 characters.
Sentiment(aspect, score, label) ==
    [aspect |-> aspect, aspect_sentiment_score |-> score, aspect_sentiment_label |-> label]
Review(society_id, review_date, rating, flagged, sentiments, body) ==
    [building_society_id |-> society_id, review_date |-> review_date,
     rating_raw |-> rating, is_flagged_for_exclusion |-> flagged, sentiments |-> sentiments,
     body_text_clean |-> body]
ReviewPool ==
    << Review("nationwide", MkDate(2024, 1, 10), 5, FALSE,
              <<Sentiment("overall", 80, "very_positive"),
                Sentiment("mobile_app", 60, "positive")>>,
              <<Chars("a", 300)>>),
       Review("nationwide", MkDate(2024, 2, 1), 1, FALSE, <<>>, <<Chars("b", 40)>>),
       Review("coventry", MkDate(2024, 1, 20), 4, FALSE,
              <<Sentiment("overall", 50, "positive"),
                Sentiment("mobile_app", -40, "negative")>>,
              <<Chars("c", 297), Chars("d", 4)>>),
       Review("coventry", MkDate(2024, 3, 31), 2, FALSE,
              <<Sentiment("overall", -30, "negative")>>,
              <<Chars("e", 120)>>) >>
\* the reviews the cleaning step may flag for exclusion
Flaggable == {3}

\* the sum of the .val of the records of S
RECURSIVE SetSum(_)
SetSum(S) ==
    IF S = {} THEN 0
    ELSE Only({x.val + SetSum(S \ {x}) : x \in {CHOOSE y \in S : TRUE}})

\* the public_review rows of the filters shared by the queries:
\* review_date >= bucket_start, review_date < bucket_end, not flagged
RowsInBucket(store, bucket_start, bucket_end) ==
    {id \in DOMAIN store :
        /\ store[id].review_date >= bucket_start
        /\ store[id].review_date < bucket_end
        /\ store[id].is_flagged_for_exclusion = FALSE}

\* the sentiment_aspect rows of one aspect joined to the reviews `rows`
SentimentRows(store, rows, aspect) ==
    UNION {{[id |-> id, k |-> k,
             val |-> store[id].sentiments[k].aspect_sentiment_score,
             label |-> store[id].sentiments[k].aspect_sentiment_label] :
               k \in {j \in 1..Len(store[id].sentiments) :
                         store[id].sentiments[j].aspect = aspect}} :
           id \in rows}

\* compute_metrics_for_bucket without `if not result or result.review_count == 0:
\* return None`: a bucket without reviews gives a dict of zeros
compute_metrics_for_bucket_zero(store, society_id, aspect, bucket_start, bucket_end) ==
    Only({Only({<<[review_count |-> Cardinality(rows),
                   avg_rating |-> IF rows = {} THEN <<0, 1>>
                                  ELSE <<SetSum({[id |-> id, val |-> store[id].rating_raw] :
                                                    id \in rows}),
                                         Cardinality(rows)>>,
                   avg_sentiment_score |->
                       IF srows = {} THEN <<0, 1>>
                       ELSE <<SetSum(srows), Cardinality(srows)>>,
                   pct_positive_reviews |-> <<0, 1>>,
                   pct_negative_reviews |-> <<0, 1>>,
                   net_sentiment_score |-> <<0, 1>>]>> :
                srows \in {SentimentRows(store, rows, aspect)}}) :
          rows \in {{id \in RowsInBucket(store, bucket_start, bucket_end) :
                        store[id].building_society_id = society_id}}})
\* compute_metrics_for_bucket(society_id, aspect, bucket_start, bucket_end):
\* <<>> for None, <<data>> otherwise; an average or a share is the exact
\* fraction <<numerator, denominator>>
compute_metrics_for_bucket(store, society_id, aspect, bucket_start, bucket_end) ==
    Only({IF rows = {} THEN <<>>
          ELSE Only({<<[review_count |-> Cardinality(rows),
                        avg_rating |-> <<SetSum({[id |-> id, val |-> store[id].rating_raw] :
                                                        id \in rows}),
                                            Cardinality(rows)>>,
                        avg_sentiment_score |->
                            IF srows = {} THEN <<0, 1>>
                            ELSE <<SetSum(srows), Cardinality(srows)>>,
                        pct_positive_reviews |->
                            <<Cardinality({s \in srows :
                                     s.label \in {"positive", "very_positive"}}),
                                 Cardinality(rows)>>,
                        pct_negative_reviews |->
                            <<Cardinality({s \in srows :
                                     s.label \in {"negative", "very_negative"}}),
                                 Cardinality(rows)>>,
                        net_sentiment_score |->
                            <<Cardinality({s \in srows :
                                     s.label \in {"positive", "very_positive"}})
                                 - Cardinality({s \in srows :
                                     s.label \in {"negative", "very_negative"}}),
                                 Cardinality(rows)>>]>> :
                     srows \in {SentimentRows(store, rows, aspect)}}) :
          rows \in {{id \in RowsInBucket(store, bucket_start, bucket_end) :
                        store[id].building_society_id = society_id}}})

\* compute_peer_average without the filter on exclude_society_id
compute_peer_average_unfiltered(store, aspect, bucket_start, bucket_end, exclude_society_id) ==
    Only({IF srows = {} THEN [avg |-> <<>>, count |-> <<>>]
          ELSE [avg |-> <<SetSum(srows), Cardinality(srows)>>,
                count |-> <<Cardinality(srows)>>] :
          srows \in {SentimentRows(store, RowsInBucket(store, bucket_start, bucket_end),
                                   aspect)}})
\* compute_peer_average(aspect, bucket_start, bucket_end, exclude_society_id):
\* (avg_sentiment, review_count), or (None, None)
compute_peer_average(store, aspect, bucket_start, bucket_end, exclude_society_id) ==
    Only({IF srows = {} THEN [avg |-> <<>>, count |-> <<>>]
          ELSE [avg |-> <<SetSum(srows), Cardinality(srows)>>,
                count |-> <<Cardinality(srows)>>] :
          srows \in {SentimentRows(store,
                         {id \in RowsInBucket(store, bucket_start, bucket_end) :
                             exclude_society_id = None
                             \/ store[id].building_society_id # exclude_society_id},
                         aspect)}})

\* get_time_buckets(granularity, start_date, end_date) for one of the three
\* granularities: the passes of the loop one after the other
RECURSIVE TimeBuckets(_, _, _, _)
TimeBuckets(g, cur, end, acc) ==
    IF ~(cur < end) THEN acc
    ELSE Only({TimeBuckets(g, s.current, end, Append(acc, s.bucket)) :
               s \in {IF g = MONTHLY THEN MonthlyStep(cur, end)
                      ELSE IF g = QUARTERLY THEN QuarterlyStep(cur, end)
                      ELSE YearlyStep(cur, end)}})

\* aspects when the caller gives none
DefaultAspects == <<"overall", "digital_banking", "mobile_app", "branches", "mortgages",
                    "savings", "customer_service">>

\* (func.min(review_date), func.max(review_date)) over public_review; NoDate
\* on no row
ReviewDateRange(store) ==
    IF DOMAIN store = {} THEN <<NoDate, NoDate>>
    ELSE << CHOOSE d \in {store[i].review_date : i \in DOMAIN store} :
                \A j \in DOMAIN store : d <= store[j].review_date,
            CHOOSE d \in {store[i].review_date : i \in DOMAIN store} :
                \A j \in DOMAIN store : d >= store[j].review_date >>

\* SummaryMetric(...) as compute_all_metrics builds it
SummaryMetric(society_id, bucket, aspect, data, peer, metric_version) ==
    [building_society_id |-> society_id,
     time_bucket_start |-> bucket[1],
     time_bucket_end |-> bucket[2],
     aspect |-> aspect,
     review_count |-> data.review_count,
     avg_rating |-> data.avg_rating,
     avg_sentiment_score |-> data.avg_sentiment_score,
     pct_positive_reviews |-> data.pct_positive_reviews,
     pct_negative_reviews |-> data.pct_negative_reviews,
     net_sentiment_score |-> data.net_sentiment_score,
     peer_group_avg_sentiment_score |-> peer.avg,
     peer_group_review_count |-> peer.count,
     metric_version |-> metric_version]

\* the loops with the peers of every record excluding the first society read
MetricsLoop_stale(store, societies, bkts, aspects, metric_version) ==
    LET nb == Len(bkts)
        na == Len(aspects)
        society(n) == societies[((n - 1) \div (nb * na)) + 1]
        bucket(n)  == bkts[(((n - 1) \div na) % nb) + 1]
        aspect(n)  == aspects[((n - 1) % na) + 1]
        pass(n) ==
            Only({IF data = <<>> THEN <<>>
                  ELSE <<SummaryMetric(society(n), bucket(n), aspect(n), data[1],
                             compute_peer_average(store, aspect(n), bucket(n)[1],
                                                  bucket(n)[2], societies[1]),
                             metric_version)>> :
                  data \in {compute_metrics_for_bucket(store, society(n), aspect(n),
                                                      bucket(n)[1], bucket(n)[2])}})
    IN Only({[i \in 1..Len(kept) |-> kept[i][1]] \o <<>> :
             kept \in {SelectSeq([n \in 1..(Len(societies) * nb * na) |-> pass(n)] \o <<>>,
                                 LAMBDA m : m # <<>>)}})
\* the loops of compute_all_metrics over societies, buckets and aspects:
\* the list `metrics`
MetricsLoop(store, societies, bkts, aspects, metric_version) ==
    LET nb == Len(bkts)
        na == Len(aspects)
        society(n) == societies[((n - 1) \div (nb * na)) + 1]
        bucket(n)  == bkts[(((n - 1) \div na) % nb) + 1]
        aspect(n)  == aspects[((n - 1) % na) + 1]
        pass(n) ==
            Only({IF data = <<>> THEN <<>>
                  ELSE <<SummaryMetric(society(n), bucket(n), aspect(n), data[1],
                             compute_peer_average(store, aspect(n), bucket(n)[1],
                                                  bucket(n)[2], society(n)),
                             metric_version)>> :
                  data \in {compute_metrics_for_bucket(store, society(n), aspect(n),
                                                      bucket(n)[1], bucket(n)[2])}})
    IN Only({[i \in 1..Len(kept) |-> kept[i][1]] \o <<>> :
             kept \in {SelectSeq([n \in 1..(Len(societies) * nb * na) |-> pass(n)] \o <<>>,
                                 LAMBDA m : m # <<>>)}})

\* compute_all_metrics(granularity, None, start_date, end_date, metric_version);
\* societies is the order in which the query returns the building societies
compute_all_metrics(store, societies, g, range_start, range_end, metric_version) ==
    Only({IF range[1] = NoDate \/ range[2] = NoDate THEN <<>>
          ELSE MetricsLoop(store, societies, TimeBuckets(g, range[1], range[2], <<>>),
                           DefaultAspects, metric_version) :
          range \in {IF range_start = NoDate \/ range_end = NoDate
                     THEN <<IF range_start # NoDate THEN range_start ELSE ReviewDateRange(store)[1],
                            IF range_end # NoDate THEN range_end ELSE ReviewDateRange(store)[2]>>
                     ELSE <<range_start, range_end>>}})

\* the orders in which the query on building_society, which has no ORDER BY,
\* may return the rows
SocietyOrders == {Societies, <<Societies[3], Societies[2], Societies[1]>>}

\* a cleaned review is saved, flagged for exclusion or not, with the
\* sentiment rows of its enrichment
ingest_review(id, flagged) ==
    /\ id \notin DOMAIN reviews
    /\ flagged => id \in Flaggable
    /\ reviews' = Put(reviews, id, [ReviewPool[id] EXCEPT !.is_flagged_for_exclusion = flagged])
    /\ changedOrgs' = changedOrgs \cup {ReviewPool[id].building_society_id}
    /\ mPrev' = <<>>
    /\ mChanged' = {}
    /\ turn' = <<>>
    /\ UNCHANGED <<mRun, summary, savedRuns, batch, index, indexedRuns>>
    /\ UNCHANGED <<chatVars, parseVars, bucketVars>>

\* compute_all_metrics(granularity, None, start_date, end_date, metric_version)
run_compute_all_metrics(g, range, version, societies) ==
    /\ mRun' = <<[granularity |-> g, range |-> range, metric_version |-> version,
                  societies |-> societies, store |-> reviews,
                  out |-> compute_all_metrics(reviews, societies, g, range[1], range[2],
                                              version)]>>
    /\ mPrev' = IF /\ mRun # <<>>
                   /\ mRun[1].granularity = g
                   /\ mRun[1].range = range
                   /\ mRun[1].metric_version = version
                THEN mRun ELSE <<>>
    /\ mChanged' = changedOrgs
    /\ changedOrgs' = {}
    /\ UNCHANGED reviews
    /\ UNCHANGED <<chatVars, parseVars, bucketVars, retrievalVars>>

MetricsInit ==
    /\ reviews = EmptyDict
    /\ mRun = <<>>
    /\ mPrev = <<>>
    /\ mChanged = {}
    /\ changedOrgs = {}

MetricsNext ==
    \/ \E id \in DOMAIN ReviewPool, flagged \in BOOLEAN : ingest_review(id, flagged)
    \/ \E g \in {MONTHLY, QUARTERLY, YEARLY}, societies \in SocietyOrders :
           \E range \in {<<NoDate, NoDate>>, <<MkDate(2024, 1, 1), MkDate(2024, 4, 1)>>} :
           \E version \in {"v1", "v2"} :
               run_compute_all_metrics(g, range, version, societies)

-----------------------------------------------------------------------------
(* scripts/04_compute_metrics.py, scripts/05_build_embeddings.py,
   VectorIndex.search and RetrievalService *)

\* len(text)
RECURSIVE TextLen(_)
TextLen(t) == IF t = <<>> THEN 0 ELSE t[1].n + TextLen(Tail(t))

\* text[:k]
RECURSIVE TextTake(_, _)
TextTake(t, k) ==
    IF t = <<>> \/ k <= 0 THEN <<>>
    ELSE IF t[1].n <= k THEN <<t[1]>> \o TextTake(Tail(t), k - t[1].n)
    ELSE <<Chars(t[1].c, k)>>

\* a + b
TextCat(a, b) ==
    IF a = <<>> THEN b
    ELSE IF b = <<>> THEN a
    ELSE IF a[Len(a)].c = b[1].c
         THEN SubSeq(a, 1, Len(a) - 1) \o <<Chars(b[1].c, a[Len(a)].n + b[1].n)>> \o Tail(b)
    ELSE a \o b

\* ReviewDocument(...) of process_batch for review id: the label of the
\* "overall" sentiment row or "neutral", the aspects other than "overall",
\* the text cut to 2000 characters
ReviewDocument(store, id) ==
    LET rows == store[id].sentiments
        overall == SelectSeq(rows, LAMBDA s : s.aspect = "overall")
        others == SelectSeq(rows, LAMBDA s : s.aspect # "overall")
    IN [id |-> id,
        building_society_id |-> store[id].building_society_id,
        review_date |-> IsoFormat(store[id].review_date),
        rating |-> store[id].rating_raw,
        sentiment_label |-> IF overall # <<>> THEN overall[1].aspect_sentiment_label
                            ELSE "neutral",
        aspects |-> [i \in 1..Len(others) |-> others[i].aspect] \o <<>>,
        text |-> TextTake(store[id].body_text_clean, 2000)]

\* the reviews main() of 05_build_embeddings selects: enriched, not flagged
ReviewsToEmbed(store) ==
    SelectSeq([id \in DOMAIN ReviewPool |-> id],
              LAMBDA id : /\ id \in DOMAIN store
                          /\ store[id].sentiments # <<>>
                          /\ store[id].is_flagged_for_exclusion = FALSE)

\* 'a' <= 'b' on ISO date strings
IsoLe(a, b) ==
    \/ a[1] < b[1]
    \/ a[1] = b[1] /\ a[2] < b[2]
    \/ a[1] = b[1] /\ a[2] = b[2] /\ a[3] <= b[3]

\* the filter expression of VectorIndex.search on one document
MatchesFilter(doc, building_society_ids, search_start, search_end, sentiment_labels) ==
    /\ building_society_ids # <<>> =>
           \E i \in 1..Len(building_society_ids) :
               doc.building_society_id = building_society_ids[i]
    /\ search_start # NoDate => IsoLe(IsoFormat(search_start), doc.review_date)
    /\ search_end # NoDate => IsoLe(doc.review_date, IsoFormat(search_end))
    /\ sentiment_labels # <<>> =>
           \E i \in 1..Len(sentiment_labels) : doc.sentiment_label = sentiment_labels[i]

\* s[:k]
Prefix(s, k) == IF Len(s) <= k THEN s ELSE SubSeq(s, 1, k)

\* VectorIndex.search: ranked is the table in the order of the distance to
\* the query vector; prefilter says whether the library applies the where
\* clause before the limit or to the nearest `limit` rows
search(ranked, prefilter, limit, building_society_ids, search_start, search_end, sentiment_labels, aspects) ==
    LET ok(doc) == MatchesFilter(doc, building_society_ids, search_start, search_end,
                                 sentiment_labels)
        results == IF prefilter THEN Prefix(SelectSeq(ranked, ok), limit)
                   ELSE SelectSeq(Prefix(ranked, limit), ok)
        \* `aspect in result_aspects` on the JSON text of the list; no aspect
        \* name is part of another
        has(doc) == \E i \in 1..Len(aspects), j \in 1..Len(doc.aspects) :
                        aspects[i] = doc.aspects[j]
    IN IF aspects # <<>> THEN Prefix(SelectSeq(results, has), limit) ELSE results

\* MetricSummary(...) of a summary_metric row
MetricSummary(m) ==
    [building_society_id |-> m.building_society_id,
     time_bucket_start |-> m.time_bucket_start,
     time_bucket_end |-> m.time_bucket_end,
     aspect |-> m.aspect,
     review_count |-> m.review_count,
     avg_rating |-> m.avg_rating,
     avg_sentiment_score |-> m.avg_sentiment_score,
     pct_negative_reviews |-> m.pct_negative_reviews,
     pct_positive_reviews |-> m.pct_positive_reviews,
     net_sentiment_score |-> m.net_sentiment_score,
     peer_group_avg_sentiment_score |-> m.peer_group_avg_sentiment_score,
     peer_group_review_count |-> m.peer_group_review_count]

\* get_metrics with the society list taken from the primary societies alone
get_metrics_primary_only(table, q_intent) ==
    LET society_ids == IF q_intent.primary_building_societies # <<>>
                       THEN q_intent.primary_building_societies
                       ELSE Societies
        aspects == IF q_intent.focus_areas # <<>> THEN q_intent.focus_areas ELSE <<"overall">>
        keep(m) ==
            /\ \E i \in 1..Len(society_ids) : m.building_society_id = society_ids[i]
            /\ \E i \in 1..Len(aspects) : m.aspect = aspects[i]
            /\ q_intent.timeframe_start # NoDate => m.time_bucket_start >= q_intent.timeframe_start
            /\ q_intent.timeframe_end # NoDate => m.time_bucket_end <= q_intent.timeframe_end
        metrics == SelectSeq(table, keep)
    IN [i \in 1..Len(metrics) |-> MetricSummary(metrics[i])] \o <<>>
\* RetrievalService.get_metrics(q_intent) over the rows of summary_metric
get_metrics(table, q_intent) ==
    LET given == q_intent.primary_building_societies \o q_intent.comparison_building_societies
        society_ids == IF given # <<>> THEN given ELSE Societies
        aspects == IF q_intent.focus_areas # <<>> THEN q_intent.focus_areas ELSE <<"overall">>
        keep(m) ==
            /\ \E i \in 1..Len(society_ids) : m.building_society_id = society_ids[i]
            /\ \E i \in 1..Len(aspects) : m.aspect = aspects[i]
            /\ q_intent.timeframe_start # NoDate => m.time_bucket_start >= q_intent.timeframe_start
            /\ q_intent.timeframe_end # NoDate => m.time_bucket_end <= q_intent.timeframe_end
        metrics == SelectSeq(table, keep)
    IN [i \in 1..Len(metrics) |-> MetricSummary(metrics[i])] \o <<>>

\* the snippet text cut after 300 characters, the marker added to it
SnippetText_keep300(text) ==
    IF TextLen(text) > 300 THEN TextCat(TextTake(text, 300), <<Chars(".", 3)>>) ELSE text
\* the snippet text: text[:297] + "..." when len(text) > 300
SnippetText(text) ==
    IF TextLen(text) > 300 THEN TextCat(TextTake(text, 297), <<Chars(".", 3)>>) ELSE text

\* ReviewSnippet(...) of a search result
ReviewSnippet(result) ==
    [snippet_id |-> result.id,
     building_society_id |-> result.building_society_id,
     review_date |-> FromIso(result.review_date),
     rating |-> result.rating,
     sentiment_label |-> IF result.sentiment_label \in {"very_negative", "negative", "neutral",
                                                        "positive", "very_positive"}
                         THEN result.sentiment_label ELSE "neutral",
     aspects |-> result.aspects,
     snippet_text |-> SnippetText(result.text)]

\* get_evidence_snippets whose search takes no sentiment labels
get_evidence_snippets_any_label(ranked, prefilter, q_intent, limit) ==
    LET results == search(ranked, prefilter, limit * 2,
                          q_intent.primary_building_societies
                              \o q_intent.comparison_building_societies,
                          q_intent.timeframe_start, q_intent.timeframe_end,
                          <<>>, q_intent.focus_areas)
        first == Prefix(results, limit)
    IN [i \in 1..Len(first) |-> ReviewSnippet(first[i])] \o <<>>
\* RetrievalService.get_evidence_snippets(q_intent, limit) on the ranked table
get_evidence_snippets(ranked, prefilter, q_intent, limit) ==
    LET results == search(ranked, prefilter, limit * 2,
                          q_intent.primary_building_societies
                              \o q_intent.comparison_building_societies,
                          q_intent.timeframe_start, q_intent.timeframe_end,
                          IF q_intent.sentiment_focus = "mostly_negative"
                              THEN <<"very_negative", "negative">>
                          ELSE IF q_intent.sentiment_focus = "mostly_positive"
                              THEN <<"positive", "very_positive">>
                          ELSE <<>>,
                          q_intent.focus_areas)
        first == Prefix(results, limit)
    IN [i \in 1..Len(first) |-> ReviewSnippet(first[i])] \o <<>>

\* RetrievalService.get_data_coverage(q_intent) on the day `today`
get_data_coverage(store, q_intent, today) ==
    LET society_ids == q_intent.primary_building_societies
                           \o q_intent.comparison_building_societies
        count(society_id) ==
            Cardinality({id \in DOMAIN store :
                            /\ store[id].building_society_id = society_id
                            /\ store[id].is_flagged_for_exclusion = FALSE})
        per_society == [i \in 1..Len(society_ids) |->
                           [building_society_id |-> society_ids[i],
                            review_count |-> count(society_ids[i])]] \o <<>>
        max_date == ReviewDateRange(store)[2]
    IN [snapshot_end_date |-> IF max_date # NoDate THEN max_date ELSE today,
        sources |-> <<"Trustpilot", "Apple App Store", "Google Play Store">>,
        total_reviews_considered |->
            SetSum({[id |-> i, val |-> per_society[i].review_count] :
                       i \in 1..Len(per_society)}),
        per_society_review_counts |-> per_society]

\* the runs of 04_compute_metrics without --clear-existing, and of
\* 05_build_embeddings without --clear, whose output the tables hold at most
MaxSavedRuns == 2
MaxIndexedRuns == 1
\* the largest `limit` of get_evidence_snippets
MaxLimit == 2

\* 04_compute_metrics.py main() with --clear-existing, up to its first
\* commit: session.query(SummaryMetric).delete(); session.commit().
\* `before` keeps the rows the table held.
clear_metrics ==
    /\ batch = <<>>
    /\ batch' = <<[before |-> summary]>>
    /\ summary' = <<>>
    /\ savedRuns' = 0
    /\ turn' = <<>>
    /\ UNCHANGED <<index, indexedRuns>>
    /\ UNCHANGED <<chatVars, parseVars, bucketVars, metricVars>>

\* 04_compute_metrics.py main(): --granularity g, no dates, version "v1".
\* With --clear-existing: from compute_all_metrics to the second commit;
\* without: the whole of main(), which has this one commit
save_metrics(clear_existing, g) ==
    /\ IF clear_existing THEN batch # <<>> ELSE batch = <<>> /\ savedRuns < MaxSavedRuns
    /\ summary' = summary \o compute_all_metrics(reviews, Societies, g, NoDate, NoDate, "v1")
    /\ savedRuns' = savedRuns + 1
    /\ batch' = <<>>
    /\ turn' = <<>>
    /\ UNCHANGED <<index, indexedRuns>>
    /\ UNCHANGED <<chatVars, parseVars, bucketVars, metricVars>>

\* 05_build_embeddings.py main(), with or without --clear
build_index(clear) ==
    /\ clear \/ indexedRuns < MaxIndexedRuns
    /\ \E ids \in {ReviewsToEmbed(reviews)} :
           index' = (IF clear THEN <<>> ELSE index)
                        \o ([i \in 1..Len(ids) |-> ReviewDocument(reviews, ids[i])] \o <<>>)
    /\ indexedRuns' = IF clear THEN 1 ELSE indexedRuns + 1
    /\ turn' = <<>>
    /\ UNCHANGED <<summary, savedRuns, batch>>
    /\ UNCHANGED <<chatVars, parseVars, bucketVars, metricVars>>

\* orders in which the search may rank a table of n rows: each row first,
\* the others behind it in the order of the table or against it (every order
\* of up to three rows)
Orders(n) ==
    {[i \in 1..n |-> ((i + k - 1) % n) + 1] : k \in 0..(IF n = 0 THEN 0 ELSE n - 1)}
        \cup {[i \in 1..n |-> ((n - i + k) % n) + 1] : k \in 0..(IF n = 0 THEN 0 ELSE n - 1)}

\* the intents of the turns: QueryIntent with the fields the retrieval reads
RetrievalIntents ==
    { QueryIntent(FALSE, <<"nationwide">>, <<>>, "all_available", NoDate, NoDate,
                  <<>>, "overall_sentiment", "all", "standard"),
      QueryIntent(FALSE, <<"nationwide">>, <<"coventry">>, "all_available", NoDate, ChatToday,
                  <<"overall">>, "overall_sentiment", "all", "standard"),
      QueryIntent(FALSE, <<>>, <<>>, "calendar_year", MkDate(2024, 1, 1), MkDate(2024, 12, 31),
                  <<"mobile_app">>, "overall_sentiment", "mostly_negative", "standard"),
      QueryIntent(FALSE, <<"coventry">>, <<>>, "all_available", NoDate, NoDate,
                  <<>>, "overall_sentiment", "mostly_negative", "standard"),
      QueryIntent(FALSE, <<"nationwide">>, <<"nationwide">>, "all_available",
                  MkDate(2024, 2, 1), ChatToday,
                  <<"overall", "mobile_app">>, "overall_sentiment", "mostly_positive", "standard"),
      QueryIntent(FALSE, <<"leeds">>, <<>>, "all_available", NoDate, NoDate,
                  <<>>, "overall_sentiment", "all", "standard"),
      QueryIntent(FALSE, <<"nationwide">>, <<>>, "calendar_year", MkDate(2023, 1, 1), MkDate(2023, 12, 31),
                  <<>>, "overall_sentiment", "all", "standard"),
      QueryIntent(FALSE, <<>>, <<>>, "all_available", NoDate, NoDate,
                  <<>>, "overall_sentiment", "all", "standard"),
      QueryIntent(FALSE, <<"coventry">>, <<"nationwide">>, "all_available",
                  MkDate(2024, 1, 15), ChatToday,
                  <<"mobile_app">>, "overall_sentiment", "mostly_positive", "standard"),
      QueryIntent(FALSE, <<"nationwide">>, <<>>, "last_12_months",
                  MkDate(2023, 2, 1), MkDate(2024, 2, 29),
                  <<>>, "overall_sentiment", "all", "standard") }

\* chat, from the metrics to the answer: get_metrics, get_evidence_snippets
\* (chat passes limit 10), get_data_coverage, then the no-data response or
\* the generated answer, unless generate() raises
retrieve(q_intent, limit, order, prefilter) ==
    /\ turn = <<>>
    /\ Len(order) = Len(index)
    /\ \E ranked \in {[i \in 1..Len(index) |-> index[order[i]]] \o <<>>} :
       \E metrics \in {get_metrics(summary, q_intent)} :
       \E snippets \in {get_evidence_snippets(ranked, prefilter, q_intent, limit)} :
       \E generated \in BOOLEAN :
           /\ (metrics = <<>> /\ snippets = <<>>) => generated
           /\ turn' = <<[intent |-> q_intent, limit |-> limit, ranked |-> ranked,
                         prefilter |-> prefilter,
                         metrics |-> metrics, snippets |-> snippets,
                         coverage |-> get_data_coverage(reviews, q_intent, ChatToday),
                         answer |-> IF metrics = <<>> /\ snippets = <<>> THEN "no_data"
                                    ELSE IF generated THEN "generated" ELSE "raised",
                         status |-> IF generated THEN 200 ELSE 500]>>
    /\ UNCHANGED <<summary, savedRuns, batch, index, indexedRuns>>
    /\ UNCHANGED <<chatVars, parseVars, bucketVars, metricVars>>

\* chat returns the ChatResponse, or the HTTP 500
respond ==
    /\ turn # <<>>
    /\ turn' = <<>>
    /\ UNCHANGED <<summary, savedRuns, batch, index, indexedRuns>>
    /\ UNCHANGED <<chatVars, parseVars, bucketVars, metricVars>>

RetrievalInit ==
    /\ summary = <<>>
    /\ savedRuns = 0
    /\ batch = <<>>
    /\ index = <<>>
    /\ indexedRuns = 0
    /\ turn = <<>>

RetrievalNext ==
    \/ \E id \in DOMAIN ReviewPool, flagged \in BOOLEAN : ingest_review(id, flagged)
    \/ clear_metrics
    \/ \E clear_existing \in BOOLEAN, g \in {MONTHLY, QUARTERLY, YEARLY} :
           \* here the summary table holds the rows of one run at a time
           /\ savedRuns = 0
           /\ save_metrics(clear_existing, g)
    \/ \E clear \in BOOLEAN : build_index(clear)
    \/ \E q_intent \in RetrievalIntents, limit \in 1..MaxLimit, prefilter \in BOOLEAN :
       \E order \in Orders(Len(index)) :
           retrieve(q_intent, limit, order, prefilter)
    \/ respond

\* the runs of 04_compute_metrics, with and without --clear-existing, one
\* after the other, and chat turns reading the summary table between their
\* commits; the vector index is left empty
BatchNext ==
    \/ \E id \in DOMAIN ReviewPool, flagged \in BOOLEAN : ingest_review(id, flagged)
    \/ clear_metrics
    \/ \E clear_existing \in BOOLEAN, g \in {MONTHLY, QUARTERLY, YEARLY} :
           save_metrics(clear_existing, g)
    \/ \E q_intent \in RetrievalIntents : retrieve(q_intent, MaxLimit, <<>>, FALSE)
    \/ respond
-----------------------------------------------------------------------------
(* The specifications *)

\* chat turns and resets against the session store
Init == ChatInit /\ ParseIdle /\ BucketsIdle /\ MetricsInit /\ RetrievalInit
Next == ChatNext
Spec == Init /\ [][Next]_vars

\* QueryParser.parse on every input of the model
InitParse == ChatInit /\ ParseInit /\ BucketsIdle /\ MetricsInit /\ RetrievalInit
NextParse == parse_call
SpecParse == InitParse /\ [][NextParse]_vars

\* get_time_buckets on every input of the model
InitBuckets == ChatInit /\ ParseIdle /\ BucketsInit /\ MetricsInit /\ RetrievalInit
NextBuckets == BucketsNext
SpecBuckets == InitBuckets /\ [][NextBuckets]_vars
\* the same, with the loop running on as long as it can
SpecBucketsFair == SpecBuckets /\ WF_vars(NextBuckets)


\* reviews entering the store and runs of compute_all_metrics
InitMetrics == ChatInit /\ ParseIdle /\ BucketsIdle /\ MetricsInit /\ RetrievalInit
SpecMetrics == InitMetrics /\ [][MetricsNext]_vars

\* the pipeline scripts filling the tables and the retrieval of chat turns
InitRetrieval == ChatInit /\ ParseIdle /\ BucketsIdle /\ MetricsInit /\ RetrievalInit
SpecRetrieval == InitRetrieval /\ [][RetrievalNext]_vars

\* the batch runs of 04_compute_metrics against the chat turns that read
InitBatch == ChatInit /\ ParseIdle /\ BucketsIdle /\ MetricsInit /\ RetrievalInit
SpecBatch == InitBatch /\ [][BatchNext]_vars

-----------------------------------------------------------------------------
(* Properties of the chat turn and the session store, under Spec *)

\* C1: a turn that failed or was abandoned leaves the stored intent and the
\* turn_count of its session exactly as they were before the turn began, and
\* a turn writes its intent only once metrics, evidence, coverage and answer
\* exist: while it still waits for the evidence the stored intent is the old
\* one. Stated of a session that existed before the turn and that no later
\* turn or reset has touched.
C1_FailedTurnLeavesSession ==
    \A t \in Turns :
        (/\ pc[t] \in {"awaiting", "failed", "cancelled"}
         /\ ~snap[t].created
         /\ session[t] \in DOMAIN sessions
         /\ hist[session[t]][Len(hist[session[t]])] = t)
        => /\ sessions[session[t]].previous_intent = snap[t].previous_intent
           /\ (pc[t] # "awaiting"
                  => sessions[session[t]].turn_count = snap[t].turn_count)

\* C2: whatever the interleaving of the turns on a session, no update is
\* lost: its turn_count is the number of turns that ran on it, and its stored
\* intent is the intent one of these turns resolved (none only if none of them
\* resolved one); and a step of a turn on session id A changes the state
\* stored for no other id.
C2_NoLostUpdate ==
    /\ [](\A k \in DOMAIN sessions :
             /\ sessions[k].turn_count = Len(hist[k])
             /\ LET resolved == {i \in 1..Len(hist[k]) : intent[hist[k][i]] # NoIntent}
                IN IF resolved = {} THEN sessions[k].previous_intent = <<>>
                   ELSE \E i \in resolved :
                            sessions[k].previous_intent
                                = <<ModelDump(intent[hist[k][i]][1])>>)
    /\ [][last'.op = "chat" =>
             \A k \in DOMAIN sessions :
                 \/ k \in DOMAIN sessions' /\ sessions'[k] = sessions[k]
                 \/ \E t \in Turns : pc'[t] # pc[t] /\ session'[t] = k]_vars

\* two turns in flight on one session: the second has answered while the first
\* still waits, both are counted and the second one's intent is stored
C2_Witness ==
    /\ pc[1] = "awaiting" /\ pc[2] = "responded"
    /\ session[1] = session[2] /\ session[1] \in DOMAIN sessions
    /\ sessions[session[1]].turn_count = 2
    /\ intent[1] # NoIntent /\ intent[2] # NoIntent /\ intent[1] # intent[2]
    /\ sessions[session[1]].previous_intent = <<ModelDump(intent[2][1])>>

\* C3: on one session, with no reset in between, the first turn is resolved
\* with no prior intent, the turn after a turn that resolved an intent is
\* handed that intent, field for field, and the session stores one intent:
\* that of its latest turn.
C3_PriorIsPreviousIntent ==
    \A k \in DOMAIN sessions :
        /\ prior[hist[k][1]] = NoIntent
        /\ \A i \in 1..(Len(hist[k]) - 1) :
               intent[hist[k][i]] # NoIntent
                   => prior[hist[k][i + 1]] = intent[hist[k][i]]
        /\ Len(sessions[k].previous_intent) <= 1
        /\ intent[hist[k][Len(hist[k])]] # NoIntent
               => sessions[k].previous_intent
                      = <<ModelDump(intent[hist[k][Len(hist[k])]][1])>>

\* two completed turns on one session, the second resolved with the first
\* one's intent, dates included
C3_Witness ==
    \E k \in DOMAIN sessions :
        /\ Len(hist[k]) = 2
        /\ pc[hist[k][1]] = "responded" /\ pc[hist[k][2]] = "responded"
        /\ prior[hist[k][2]] # NoIntent
        /\ prior[hist[k][2]][1].timeframe_start # NoDate
        /\ prior[hist[k][2]][1].timeframe_end = ChatToday

\* C4: a turn whose session id is missing or not in the store gets a new
\* session under a freshly generated identifier (not the id it supplied), with
\* no intent and turn_count 0; a turn with a known id gets the stored session;
\* the response carries the identifier of the turn's session.
C4_NewSessionFreshId ==
    \A t \in Turns :
        pc[t] # "idle" =>
            /\ snap[t].created =>
                   /\ session[t] \in {Uuid(n) : n \in 1..uuidCount}
                   /\ session[t] # req[t]
                   /\ snap[t].previous_intent = <<>>
                   /\ snap[t].turn_count = 0
            /\ ~snap[t].created => session[t] = req[t]
            /\ pc[t] = "responded" => resp[t].session_id = session[t]

\* C5: reset with a session id (a non-empty one) removes that session and
\* leaves every other session as it was, the whole store when the id is not
\* in it; reset with no id (None or the empty string) removes all sessions.
C5_ResetFrame ==
    [][last'.op = "reset" =>
          IF Truthy(last'.arg)
          THEN /\ DOMAIN sessions' = DOMAIN sessions \ {last'.arg}
               /\ \A k \in DOMAIN sessions' : sessions'[k] = sessions[k]
          ELSE DOMAIN sessions' = {}]_vars

\* a reset of a session id that was in use and is not stored (any more), with
\* another session still in the store
C5_Witness ==
    /\ last.op = "reset" /\ Truthy(last.arg)
    /\ last.arg \notin DOMAIN sessions
    /\ \E t \in Turns : pc[t] # "idle" /\ session[t] = last.arg
    /\ DOMAIN sessions # {}

-----------------------------------------------------------------------------
(* Properties of QueryParser.parse, under SpecParse *)

\* C6: parse never raises: when the external parser is unavailable or its
\* output malformed, parse returns the default intent (no primary and no
\* comparison organization, timeframe_type all_available).
C6_ParseNeverRaises ==
    pPc # "input" =>
        /\ ~pOut.raised
        /\ pResponse.kind # "ok" =>
               /\ pOut.intent.primary_building_societies = <<>>
               /\ pOut.intent.comparison_building_societies = <<>>
               /\ pOut.intent.timeframe_type = "all_available"

\* what resolve_society_name is to return on the names of the model, worked
\* out by hand from the registry: the id, and the confidence num/den
ExpectedResolution(n) ==
    CASE n = N_yorkshire  -> [society_id |-> "yorkshire",  num |-> 1,  den |-> 1]
      [] n = N_yorkshre   -> [society_id |-> "yorkshire",  num |-> 16, den |-> 17]
      [] n = N_zebra_bank -> [society_id |-> None,         num |-> 0,  den |-> 1]
      [] n = N_leeds_pad  -> [society_id |-> "leeds",      num |-> 1,  den |-> 1]
      [] n = N_nbs        -> [society_id |-> "nottingham", num |-> 1,  den |-> 1]
      [] n = N_natwide_bk -> [society_id |-> "nationwide", num |-> 6,  den |-> 7]
      [] n = N_natwest    -> [society_id |-> None,         num |-> 0,  den |-> 1]
      [] n = N_skiptn     -> [society_id |-> "skipton",    num |-> 12, den |-> 13]
      [] n = N_hsbc       -> [society_id |-> None,         num |-> 0,  den |-> 1]
      [] n = N_nationwxyz -> [society_id |-> "nationwide", num |-> 7,  den |-> 10]
      [] n = N_covent_gdn -> [society_id |-> None,         num |-> 0,  den |-> 1]
      [] n = N_blank      -> [society_id |-> None,         num |-> 0,  den |-> 1]
      [] n = N_coventry   -> [society_id |-> "coventry",   num |-> 1,  den |-> 1]

\* the ids a list of names is to resolve to: the unmatched names left out
ExpectedIds(names) ==
    SelectSeq([i \in 1..Len(names) |-> ExpectedResolution(names[i]).society_id],
              LAMBDA id : id # None)

\* the names of the model that are, lower-cased and trimmed, a canonical name
\* or an alias of the registry
RegistryNames ==
    {n \in NameInputs :
        \E s \in 1..Len(BUILDING_SOCIETIES) :
            \/ StrLower(BUILDING_SOCIETIES[s].canonical_name) = StrStrip(StrLower(n))
            \/ \E a \in 1..Len(BUILDING_SOCIETIES[s].aliases) :
                   StrLower(BUILDING_SOCIETIES[s].aliases[a]) = StrStrip(StrLower(n))}

C8_ResolveSocietyName ==
    (pPc # "input" /\ pResponse.kind = "ok") =>
        LET p == pResponse.parsed
            names == p.primary_building_societies
        IN /\ Len(pResolved) = Len(names)
           /\ \A i \in 1..Len(names) :
                  LET r == pResolved[i]
                      e == ExpectedResolution(names[i])
                  IN /\ r.society_id = e.society_id
                     /\ r.confidence.num * e.den = e.num * r.confidence.den
                     /\ names[i] \in RegistryNames
                            => /\ r.society_id \in SocietyIds
                               /\ r.confidence.num = r.confidence.den
                     /\ (names[i] \notin RegistryNames /\ r.society_id # None)
                            => /\ r.society_id \in SocietyIds
                               /\ 10 * r.confidence.num >= 7 * r.confidence.den
                     /\ r.society_id = None => r.confidence.num = 0
           /\ pPc = "raised" => Get(p, "timeframe_type", None) = "recent_generic"
           /\ (pPc = "returned" /\ names # <<>>) =>
                  pOut.intent.primary_building_societies =
                      IF ExpectedIds(names) = <<>> /\ p.is_follow_up /\ pPrev # NoIntent
                      THEN pPrev[1].primary_building_societies
                      ELSE ExpectedIds(names)

\* "Zebra Bank" and "Yorkshre" in one list: the first is left out, the second
\* resolved
C8_Witness ==
    /\ pPc = "returned"
    /\ pResponse.parsed.primary_building_societies = <<N_zebra_bank, N_yorkshre>>
    /\ pResolved[1].society_id = None
    /\ pResolved[2].society_id = "yorkshire"
    /\ pOut.intent.primary_building_societies = <<"yorkshire">>

-----------------------------------------------------------------------------
(* Properties of get_time_buckets, under SpecBucketsFair *)

\* the first day of the month, quarter or year that holds the date d
PeriodStart(g, d) ==
    IF g = MONTHLY THEN MkDate(Year(d), Month(d), 1)
    ELSE IF g = QUARTERLY THEN MkDate(Year(d), Month(d) - ((Month(d) - 1) % 3), 1)
    ELSE MkDate(Year(d), 1, 1)

\* the first day of the month after the one that holds the date d
NextMonthStart(d) ==
    IF Month(d) = 12 THEN MkDate(Year(d) + 1, 1, 1) ELSE MkDate(Year(d), Month(d) + 1, 1)

\* the buckets follow one another without gap or overlap
Contiguous(bs) ==
    /\ \A i \in 1..(Len(bs) - 1) : bs[i][2] = bs[i + 1][1]
    /\ \A i, j \in 1..Len(bs) : i < j => bs[i][2] <= bs[j][1]

\* C9 as the specification states it: for monthly, quarterly and yearly
\* granularity and start < end, the buckets returned are contiguous, do not
\* overlap and cover exactly [start, end): the first begins at start and the
\* last ends at end.
C9_BucketsCoverExactly ==
    (bPc = "done" /\ start_date < end_date) =>
        /\ Len(buckets) >= 1
        /\ Contiguous(buckets)
        /\ buckets[1][1] = start_date
        /\ buckets[Len(buckets)][2] = end_date

\* C9, amended: get_time_buckets terminates, and for start < end the buckets
\* returned are non-empty, contiguous and do not overlap; the first begins at
\* the first day of the month, quarter or year that holds start (at start or
\* before it) and the last ends at end, so that they cover [start, end).
C9_BucketsPartition ==
    /\ []((bPc = "done" /\ start_date < end_date) =>
             /\ Len(buckets) >= 1
             /\ Contiguous(buckets)
             /\ \A i \in 1..Len(buckets) : buckets[i][1] < buckets[i][2]
             /\ buckets[1][1] = PeriodStart(granularity, start_date)
             /\ buckets[1][1] <= start_date
             /\ buckets[Len(buckets)][2] = end_date)
    /\ <>(bPc # "loop")

\* quarterly buckets over a range that starts inside a quarter
C9_Witness ==
    /\ bPc = "done"
    /\ granularity = QUARTERLY
    /\ Len(buckets) >= 3
    /\ buckets[1][1] < start_date
    /\ buckets[Len(buckets)][2] = end_date

\* C10: with monthly granularity every bucket returned, the last included, is
\* a whole calendar month [first of the month, first of the next month); for
\* 2024-01-01..2024-03-31 the buckets are [2024-01-01, 2024-02-01),
\* [2024-02-01, 2024-03-01), [2024-03-01, 2024-04-01).
C10_MonthlyWholeMonths ==
    (bPc = "done" /\ granularity = MONTHLY) =>
        /\ \A i \in 1..Len(buckets) :
               /\ Day(buckets[i][1]) = 1
               /\ buckets[i][2] = NextMonthStart(buckets[i][1])
        /\ (start_date = 20240101 /\ end_date = 20240331) =>
               buckets = << <<20240101, 20240201>>, <<20240201, 20240301>>,
                            <<20240301, 20240401>> >>

\* ---------------------------------------------------------------------
\* Metric records across runs of compute_all_metrics
\* ---------------------------------------------------------------------

\* the records of a run, as a set
RecordsOf(run) == {run.out[i] : i \in 1..Len(run.out)}

\* two records are about the same society, bucket and aspect
SameSlot(a, b) ==
    /\ a.building_society_id = b.building_society_id
    /\ a.time_bucket_start = b.time_bucket_start
    /\ a.time_bucket_end = b.time_bucket_end
    /\ a.aspect = b.aspect

\* the sentiment rows of record r's aspect on reviews of the other societies
\* that are dated in r's bucket and are not flagged
OthersRows(store, r) ==
    UNION {{<<id, k>> : k \in {j \in 1..Len(store[id].sentiments) :
                                  store[id].sentiments[j].aspect = r.aspect}} :
           id \in {i \in DOMAIN store :
                      /\ store[i].building_society_id # r.building_society_id
                      /\ store[i].is_flagged_for_exclusion = FALSE
                      /\ store[i].review_date >= r.time_bucket_start
                      /\ store[i].review_date < r.time_bucket_end}}

\* r's peer values are the mean score and the number of exactly those rows
PeerOverOthers(store, r) ==
    LET rows == OthersRows(store, r)
        total == SetSum({[id |-> p, val |-> store[p[1]].sentiments[p[2]].aspect_sentiment_score] :
                            p \in rows})
    IN IF rows = {}
       THEN r.peer_group_avg_sentiment_score = <<>> /\ r.peer_group_review_count = <<>>
       ELSE /\ r.peer_group_review_count = <<Cardinality(rows)>>
            /\ r.peer_group_avg_sentiment_score = <<total, Cardinality(rows)>>

\* C11: in every record of a run for a society A the peer average and the
\* peer review count are aggregated over the reviews of the societies other
\* than A in the record's bucket and aspect, and when only A's reviews were
\* added between two runs with the same arguments, A's records for the same
\* bucket and aspect carry the same peer values in both runs.
C11_PeerExcludesOwnReviews ==
    /\ mRun # <<>> =>
           \A r \in RecordsOf(mRun[1]) : PeerOverOthers(mRun[1].store, r)
    /\ mPrev # <<>> =>
           \A A \in {Societies[i] : i \in 1..Len(Societies)} :
               mChanged \subseteq {A} =>
                   \A a \in RecordsOf(mPrev[1]), b \in RecordsOf(mRun[1]) :
                       (a.building_society_id = A /\ SameSlot(a, b)) =>
                           /\ a.peer_group_avg_sentiment_score = b.peer_group_avg_sentiment_score
                           /\ a.peer_group_review_count = b.peer_group_review_count

\* Between two runs only society A got a review; A has a record with peers in
\* both runs, and another society's record for the same bucket and aspect has
\* a different peer average in the second run.
C11_Witness ==
    /\ mPrev # <<>>
    /\ mRun # <<>>
    /\ \E A \in {Societies[i] : i \in 1..Len(Societies)} :
           /\ mChanged = {A}
           /\ \E a \in RecordsOf(mPrev[1]), b \in RecordsOf(mRun[1]) :
                  /\ a.building_society_id = A
                  /\ SameSlot(a, b)
                  /\ a.peer_group_review_count # <<>>
           /\ \E c \in RecordsOf(mPrev[1]), d \in RecordsOf(mRun[1]) :
                  /\ c.building_society_id # A
                  /\ SameSlot(c, d)
                  /\ c.peer_group_avg_sentiment_score # d.peer_group_avg_sentiment_score

CountingRecords(run, id) ==
    {r \in RecordsOf(run) :
        /\ r.building_society_id = run.store[id].building_society_id
        /\ r.aspect = "overall"
        /\ r.time_bucket_start <= run.store[id].review_date
        /\ run.store[id].review_date < r.time_bucket_end}

\* C20: after a run of compute_all_metrics with the date range left to the
\* span of the review dates, every review that is not flagged for exclusion
\* is counted in exactly one bucket of its society, the reviews on the first
\* and on the last date included.
C20_EveryReviewCountedOnce ==
    (mRun # <<>> /\ mRun[1].range = <<NoDate, NoDate>>) =>
        \A id \in DOMAIN mRun[1].store :
            mRun[1].store[id].is_flagged_for_exclusion = FALSE =>
                Cardinality(CountingRecords(mRun[1], id)) = 1

\* ---------------------------------------------------------------------
\* The retrieval of a turn
\* ---------------------------------------------------------------------

\* the elements of a list
Range(s) == {s[i] : i \in 1..Len(s)}

\* the societies a turn's intent names
IntentSocieties(q_intent) ==
    Range(q_intent.primary_building_societies) \cup Range(q_intent.comparison_building_societies)

\* row r of summary_metric is one the intent asks for
AskedFor(q_intent, r) ==
    /\ IF IntentSocieties(q_intent) = {} THEN TRUE
       ELSE r.building_society_id \in IntentSocieties(q_intent)
    /\ IF q_intent.focus_areas = <<>> THEN r.aspect = "overall"
       ELSE r.aspect \in Range(q_intent.focus_areas)
    /\ q_intent.timeframe_start = NoDate \/ q_intent.timeframe_start <= r.time_bucket_start
    /\ q_intent.timeframe_end = NoDate \/ r.time_bucket_end <= q_intent.timeframe_end

\* v holds the values of row r, all its columns but the version
ValuesOf(v, r) ==
    /\ DOMAIN v = DOMAIN r \ {"metric_version"}
    /\ \A f \in DOMAIN v : v[f] = r[f]

\* C13: get_metrics returns the stored rows of summary_metric, each as often
\* as the table holds it, whose society is one of the intent's primary or
\* comparison societies (any society when both lists are empty), whose aspect
\* is one of the focus areas ("overall" when there is none) and whose bucket
\* bounds lie within the timeframe bounds that are set; the values are the
\* stored ones, and the retrieval leaves the tables as they were.
C13_GetMetricsSelectsStoredRows ==
    /\ [](turn # <<>> =>
            /\ \A v \in Range(turn[1].metrics) :
                   \E j \in 1..Len(summary) :
                       AskedFor(turn[1].intent, summary[j]) /\ ValuesOf(v, summary[j])
            /\ \A j \in 1..Len(summary) :
                   AskedFor(turn[1].intent, summary[j]) =>
                       Cardinality({i \in 1..Len(turn[1].metrics) :
                                       ValuesOf(turn[1].metrics[i], summary[j])})
                         = Cardinality({k \in 1..Len(summary) :
                                           /\ AskedFor(turn[1].intent, summary[k])
                                           /\ \A f \in DOMAIN summary[k] \ {"metric_version"} :
                                                  summary[k][f] = summary[j][f]}))
    /\ [][turn' # <<>> => (summary' = summary /\ reviews' = reviews /\ index' = index)]_vars

\* A turn got some rows of a society of the comparison list while other rows
\* of the intent's societies and aspects were left out by the timeframe, and
\* the table is older than the reviews: no granularity gives the stored rows.
C13_Witness ==
    /\ turn # <<>>
    /\ \E v \in Range(turn[1].metrics) :
           v.building_society_id \in Range(turn[1].intent.comparison_building_societies)
    /\ \E j \in 1..Len(summary) :
           /\ ~AskedFor(turn[1].intent, summary[j])
           /\ AskedFor([turn[1].intent EXCEPT !.timeframe_start = NoDate,
                                              !.timeframe_end = NoDate], summary[j])
    /\ \A g \in {MONTHLY, QUARTERLY, YEARLY} :
           Range(summary) # Range(compute_all_metrics(reviews, Societies, g, NoDate, NoDate, "v1"))

\* the snippets are documents of the ranked table taken in its order, from
\* its first 2 * limit rows when the filter is applied after the limit
InRankOrder(t) ==
    \E f \in [1..Len(t.snippets) -> 1..Len(t.ranked)] :
        /\ \A i \in 1..Len(t.snippets) : t.ranked[f[i]].id = t.snippets[i].snippet_id
        /\ \A i, j \in 1..Len(t.snippets) : i < j => f[i] < f[j]
        /\ ~t.prefilter => \A i \in 1..Len(t.snippets) : f[i] <= 2 * t.limit

\* C14: get_evidence_snippets(intent, limit) returns at most limit snippets,
\* in the rank order of the index and out of the 2 * limit candidates it asks
\* for; every snippet's society is one of the intent's societies when there
\* are any, its review date is within the timeframe bounds that are set, and
\* its sentiment label is one of the labels of sentiment_focus.
C14_EvidenceWithinFilters ==
    turn # <<>> =>
        /\ Len(turn[1].snippets) <= turn[1].limit
        /\ InRankOrder(turn[1])
        /\ \A s \in Range(turn[1].snippets) :
               /\ IntentSocieties(turn[1].intent) # {} =>
                      s.building_society_id \in IntentSocieties(turn[1].intent)
               /\ turn[1].intent.timeframe_start # NoDate =>
                      turn[1].intent.timeframe_start <= s.review_date
               /\ turn[1].intent.timeframe_end # NoDate =>
                      s.review_date <= turn[1].intent.timeframe_end
               /\ turn[1].intent.sentiment_focus = "mostly_negative" =>
                      s.sentiment_label \in {"very_negative", "negative"}
               /\ turn[1].intent.sentiment_focus = "mostly_positive" =>
                      s.sentiment_label \in {"positive", "very_positive"}

\* A turn with societies, both timeframe bounds and a sentiment focus got a
\* snippet of a document ranked behind documents that the date bounds or the
\* label exclude.
C14_Witness ==
    /\ turn # <<>>
    /\ IntentSocieties(turn[1].intent) # {}
    /\ turn[1].intent.timeframe_start # NoDate
    /\ turn[1].intent.timeframe_end # NoDate
    /\ turn[1].intent.sentiment_focus = "mostly_positive"
    /\ Len(turn[1].ranked) = 3
    /\ Len(turn[1].snippets) = 1
    /\ turn[1].ranked[3].id = turn[1].snippets[1].snippet_id
    /\ FromIso(turn[1].ranked[1].review_date) < turn[1].intent.timeframe_start
    /\ turn[1].ranked[2].sentiment_label = "negative"

\* C15: get_data_coverage returns the latest review date of the whole store
\* and the names of all sources, whatever the intent, one entry of
\* per_society_review_counts for each society the intent names, and as
\* total_reviews_considered the number of reviews of those societies that
\* are not flagged for exclusion.
C15_CoveragePerSociety ==
    turn # <<>> =>
        /\ DOMAIN reviews # {} =>
               /\ turn[1].coverage.snapshot_end_date \in {reviews[id].review_date : id \in DOMAIN reviews}
               /\ \A id \in DOMAIN reviews :
                      reviews[id].review_date <= turn[1].coverage.snapshot_end_date
        /\ \A q_intent \in RetrievalIntents :
               /\ get_data_coverage(reviews, q_intent, ChatToday).snapshot_end_date
                      = turn[1].coverage.snapshot_end_date
               /\ get_data_coverage(reviews, q_intent, ChatToday).sources
                      = turn[1].coverage.sources
        /\ Len(turn[1].coverage.per_society_review_counts)
               = Cardinality(IntentSocieties(turn[1].intent))
        /\ {e.building_society_id : e \in Range(turn[1].coverage.per_society_review_counts)}
               = IntentSocieties(turn[1].intent)
        /\ turn[1].coverage.total_reviews_considered
               = Cardinality({id \in DOMAIN reviews :
                                 /\ reviews[id].building_society_id \in IntentSocieties(turn[1].intent)
                                 /\ reviews[id].is_flagged_for_exclusion = FALSE})

\* the store holds no review of the intent's societies dated within the
\* timeframe bounds that are set
NoReviewInRange(q_intent) ==
    /\ IntentSocieties(q_intent) # {}
    /\ \A id \in DOMAIN reviews :
           reviews[id].building_society_id \in IntentSocieties(q_intent) =>
               \/ q_intent.timeframe_start # NoDate
                    /\ reviews[id].review_date < q_intent.timeframe_start
               \/ q_intent.timeframe_end # NoDate
                    /\ reviews[id].review_date > q_intent.timeframe_end

\* C16: a turn whose societies have no review in the requested range gets no
\* metrics, no evidence and a coverage with total_reviews_considered = 0, and
\* ends with the no-data response, HTTP 200, without a call of generate.
C16_NoDataTurn ==
    (turn # <<>> /\ NoReviewInRange(turn[1].intent)) =>
        /\ turn[1].metrics = <<>>
        /\ turn[1].snippets = <<>>
        /\ turn[1].answer = "no_data"
        /\ turn[1].status = 200
        /\ turn[1].coverage.total_reviews_considered = 0

\* the i-th character of a text
RECURSIVE TextAt(_, _)
TextAt(t, i) == IF i <= t[1].n THEN t[1].c ELSE TextAt(Tail(t), i - t[1].n)

\* the number of characters of a text
Length(t) == Cardinality({<<r, i>> \in (1..Len(t)) \X (1..2000) : i <= t[r].n})

\* C17: every snippet text has at most 300 characters: a document text of
\* more than 300 characters is returned as its first 297 characters followed
\* by "...", 300 characters in all, and a text of 300 characters or fewer is
\* returned as it is.
C17_SnippetTextTruncated ==
    turn # <<>> =>
        \A s \in Range(turn[1].snippets) :
            \A doc \in {d \in Range(index) : d.id = s.snippet_id} :
                /\ Length(s.snippet_text) <= 300
                /\ Length(doc.text) <= 300 => s.snippet_text = doc.text
                /\ Length(doc.text) > 300 =>
                       /\ Length(s.snippet_text) = 300
                       /\ \A i \in 1..297 : TextAt(s.snippet_text, i) = TextAt(doc.text, i)
                       /\ \A i \in 298..300 : TextAt(s.snippet_text, i) = "."

\* A turn got a snippet of a text of 301 characters and one of a text of
\* exactly 300 characters.
C17_Witness ==
    /\ turn # <<>>
    /\ \E s \in Range(turn[1].snippets) :
           \E doc \in {d \in Range(index) : d.id = s.snippet_id} :
               Length(doc.text) = 301 /\ s.snippet_text # doc.text
    /\ \E s \in Range(turn[1].snippets) :
           \E doc \in {d \in Range(index) : d.id = s.snippet_id} :
               Length(doc.text) = 300 /\ s.snippet_text = doc.text

-----------------------------------------------------------------------------
(* Properties of the timeframe of the intent, under SpecParse *)

\* C18: for timeframe_type all_available (also when it is the default because
\* the parser gave none) the intent returned has timeframe_start and
\* timeframe_end both unset, so that retrieval applies no date filter.
C18_AllAvailableUnbounded ==
    (pPc = "returned" /\ pOut.intent.timeframe_type = "all_available") =>
        /\ pOut.intent.timeframe_start = NoDate
        /\ pOut.intent.timeframe_end = NoDate

\* the number of the month of d, counted from year 0
MonthIndex(d) == Year(d) * 12 + Month(d)

\* C19: for timeframe_type recent_generic, whatever the month of the current
\* date, parse returns an intent whose timeframe_start is a valid calendar
\* date in the month six months before that of the current date and whose timeframe_end is the
\* current date, with timeframe_start <= timeframe_end.
C19_RecentGenericWindow ==
    (/\ pPc # "input" /\ pResponse.kind = "ok"
     /\ Get(pResponse.parsed, "timeframe_type", None) = "recent_generic") =>
        /\ ~pOut.raised
        /\ ValidDate(Year(pOut.intent.timeframe_start), Month(pOut.intent.timeframe_start),
                     Day(pOut.intent.timeframe_start))
        /\ MonthIndex(pOut.intent.timeframe_start) = MonthIndex(pToday) - 6
        /\ pOut.intent.timeframe_end = pToday
        /\ pOut.intent.timeframe_start <= pOut.intent.timeframe_end

\* ---------------------------------------------------------------------
\* Which triples get a record
\* ---------------------------------------------------------------------

\* the buckets compute_all_metrics loops over in a run: those of the given
\* range, or of the first and the last review date of the store
RunBuckets(run) ==
    LET given == run.range
        dates == {run.store[i].review_date : i \in DOMAIN run.store}
        first == IF given[1] # NoDate THEN given[1]
                 ELSE IF dates = {} THEN NoDate
                 ELSE CHOOSE d \in dates : \A e \in dates : d <= e
        final == IF given[2] # NoDate THEN given[2]
                 ELSE IF dates = {} THEN NoDate
                 ELSE CHOOSE d \in dates : \A e \in dates : d >= e
    IN IF first = NoDate \/ final = NoDate THEN {}
       ELSE Range(TimeBuckets(run.granularity, first, final, <<>>))

\* the reviews that count for a society in a bucket: its reviews dated in
\* the bucket and not flagged for exclusion
MatchingReviews(store, society_id, bucket) ==
    {i \in DOMAIN store :
        /\ store[i].building_society_id = society_id
        /\ store[i].is_flagged_for_exclusion = FALSE
        /\ bucket[1] <= store[i].review_date
        /\ store[i].review_date < bucket[2]}

\* C21: a run of compute_all_metrics emits no record for a (society, bucket,
\* aspect) triple without matching reviews and exactly one record, whose
\* review_count is the number of the matching reviews, for a triple with at
\* least one; every emitted record has review_count >= 1 and is the record of
\* a triple of the run.
C21_NoEmptyRecords ==
    mRun # <<>> =>
        /\ \A r \in RecordsOf(mRun[1]) :
               /\ r.review_count >= 1
               /\ r.building_society_id \in Range(mRun[1].societies)
               /\ <<r.time_bucket_start, r.time_bucket_end>> \in RunBuckets(mRun[1])
               /\ r.aspect \in Range(DefaultAspects)
        /\ \A s \in Range(mRun[1].societies), b \in RunBuckets(mRun[1]),
              a \in Range(DefaultAspects) :
               LET slots == {k \in 1..Len(mRun[1].out) :
                                /\ mRun[1].out[k].building_society_id = s
                                /\ mRun[1].out[k].time_bucket_start = b[1]
                                /\ mRun[1].out[k].time_bucket_end = b[2]
                                /\ mRun[1].out[k].aspect = a}
                   matching == MatchingReviews(mRun[1].store, s, b)
               IN IF matching = {} THEN slots = {}
                  ELSE /\ Cardinality(slots) = 1
                       /\ \A k \in slots :
                              mRun[1].out[k].review_count = Cardinality(matching)

\* a monthly run over a store in which coventry has a review in January and
\* one on 31 March, March being a bucket of the run: January and March have
\* records, February, where coventry has no review, has none, and leeds has
\* none at all
C21_Witness ==
    /\ mRun # <<>>
    /\ mRun[1].granularity = MONTHLY
    /\ mRun[1].range = <<MkDate(2024, 1, 1), MkDate(2024, 4, 1)>>
    /\ {3, 4} \subseteq DOMAIN mRun[1].store
    /\ mRun[1].store[3].is_flagged_for_exclusion = FALSE
    /\ \E r \in RecordsOf(mRun[1]) :
           r.building_society_id = "coventry" /\ r.time_bucket_start = MkDate(2024, 3, 1)
    /\ \A r \in RecordsOf(mRun[1]) :
           /\ r.building_society_id # "leeds"
           /\ r.building_society_id = "coventry" => r.time_bucket_start # MkDate(2024, 2, 1)

\* ---------------------------------------------------------------------
\* The vocabulary of the intent
\* ---------------------------------------------------------------------

\* the enumerations of PARSE_QUERY_FUNCTION
FocusAreaEnum == {"overall", "digital_banking", "mobile_app", "branches", "mortgages",
                  "savings", "current_accounts", "customer_service", "complaints_handling",
                  "fees_and_rates"}
QuestionTypeEnum == {"overall_sentiment", "comparison", "trend_over_time",
                     "drivers_of_sentiment", "examples_only", "volume_and_mix"}
TimeframeTypeEnum == {"all_available", "last_12_months", "last_24_months", "calendar_year",
                      "since_covid", "recent_generic"}
SentimentFocusEnum == {"all", "mostly_negative", "mostly_positive"}

\* the focus areas of the returned intent are in the enumeration
FocusAreasInVocabulary ==
    pPc = "returned" => Range(pOut.intent.focus_areas) \subseteq FocusAreaEnum

\* C23: every focus area of an intent that parse returns belongs to the
\* focus-area enumeration, and question type, timeframe type and sentiment
\* focus belong to theirs: a value outside the vocabulary that the parser
\* delivered is not in the intent handed to the retrieval.
C23_IntentInVocabulary ==
    /\ FocusAreasInVocabulary
    /\ pPc = "returned" =>
           /\ pOut.intent.question_type \in QuestionTypeEnum
           /\ pOut.intent.timeframe_type \in TimeframeTypeEnum
           /\ pOut.intent.sentiment_focus \in SentimentFocusEnum

\* ---------------------------------------------------------------------
\* The summary table across runs of 04_compute_metrics
\* ---------------------------------------------------------------------

\* the rows of a table for one (society, aspect, version), in table order
RowsFor(table, society_id, aspect, version) ==
    SelectSeq(table, LAMBDA r : /\ r.building_society_id = society_id
                                /\ r.aspect = aspect
                                /\ r.metric_version = version)

\* the stored rows of one (society, aspect, version) have pairwise disjoint
\* buckets [start, end); a bucket stored twice overlaps itself
BucketsDisjointPerVersion ==
    \A i, j \in 1..Len(summary) :
        (/\ i < j
         /\ summary[i].building_society_id = summary[j].building_society_id
         /\ summary[i].aspect = summary[j].aspect
         /\ summary[i].metric_version = summary[j].metric_version)
        => \/ summary[i].time_bucket_end <= summary[j].time_bucket_start
           \/ summary[j].time_bucket_end <= summary[i].time_bucket_start

\* a step adds no row to the rows a (society, aspect, version) already has
NeverAddedTo ==
    \A s \in Range(Societies), a \in Range(DefaultAspects), v \in {"v1"} :
        LET old == RowsFor(summary, s, a, v)
            new == RowsFor(summary', s, a, v)
        IN old # <<>> => ~(Len(new) > Len(old) /\ SubSeq(new, 1, Len(old)) = old)

\* C22: after any sequence of runs of 04_compute_metrics, of any granularity
\* and with or without --clear-existing, the rows stored for one (society,
\* aspect, version) have pairwise non-overlapping, non-duplicated buckets,
\* and no run adds rows to those a version already has.
C22_VersionWrittenOnce == []BucketsDisjointPerVersion /\ [][NeverAddedTo]_vars

\* C26: a chat turn that reads the summary table while a run of
\* 04_compute_metrics is between its commits gets, for its intent, the rows
\* of the complete table of before the run or those of the complete table
\* the run writes (of one of the granularities), never those of an empty or
\* partly written table.
C26_ReaderSeesCompleteSet ==
    (turn # <<>> /\ batch # <<>>) =>
        \/ turn[1].metrics = get_metrics(batch[1].before, turn[1].intent)
        \/ \E g \in {MONTHLY, QUARTERLY, YEARLY} :
               turn[1].metrics =
                   get_metrics(compute_all_metrics(reviews, Societies, g, NoDate, NoDate, "v1"),
                               turn[1].intent)

\* ---------------------------------------------------------------------
\* External calls of a chat turn
\* ---------------------------------------------------------------------

\* the external collaborators of a turn
Collaborators == {"parser", "store", "embedding", "search"}

\* C24: a turn that a failed call of an external collaborator (intent
\* parser, metric store, embedding service, vector index) has ended made more
\* than one attempt of that call, at most a fixed number of them, and the
\* caller got a failure.
C24_FailedCallWasRetried ==
    \A t \in Turns :
        (pc[t] = "failed" /\ calls[t].failed \in Collaborators) =>
            /\ resp[t].status = 500
            /\ calls[t][calls[t].failed] >= 2
            /\ calls[t][calls[t].failed] <= StopAfterAttempt

\* C25: while a turn waits for the intent parser or for the embedding
\* service it holds no database session, and a request of another session can
\* be taken up: its turn can begin and read and update its own session.
C25_WaitBlocksNoOtherSession ==
    \A t \in Turns :
        pc[t] \in {"parsing", "awaiting"} =>
            /\ ~db_session[t]
            /\ \A u \in Turns, sid \in ClientIds :
                   (/\ pc[u] = "idle"
                    /\ \A v \in Turns : v < u => pc[v] # "idle"
                    /\ sid # session[t]
                    /\ Truthy(sid) \/ uuidCount < MaxUuid)
                   => ENABLED chat_begin(u, sid)

\* ---------------------------------------------------------------------
\* A reset while a turn is suspended
\* ---------------------------------------------------------------------

\* C30: a turn that leaves its await (answers, fails or is abandoned)
\* creates and changes no stored session, so a session reset while the turn
\* was suspended stays removed; the first turn on an id after the reset of
\* that id starts from a new session: it is handed no prior intent, the
\* session had turn_count 0, and when the turn has run the session has
\* turn_count 1 and no intent but the turn's own.
C30_ResetWins ==
    /\ [][\A t \in Turns : (pc[t] = "awaiting" /\ pc'[t] # "awaiting") => sessions' = sessions]_vars
    /\ [](\A k \in DOMAIN sessions :
             hist[k] # <<>> =>
                 /\ snap[hist[k][1]].created
                 /\ snap[hist[k][1]].turn_count = 0
                 /\ prior[hist[k][1]] = NoIntent
                 /\ Len(hist[k]) = 1 =>
                        /\ sessions[k].turn_count = 1
                        /\ sessions[k].previous_intent
                               = IF intent[hist[k][1]] = NoIntent THEN <<>>
                                 ELSE <<ModelDump(intent[hist[k][1]][1])>>)

\* turn 1 stored an intent on session "s1" and is suspended at its await; the
\* session was reset; turn 2, on the same id, got a new session, no prior
\* intent, and has answered: the session has turn_count 1
C30_Witness ==
    /\ pc[1] = "awaiting" /\ intent[1] # NoIntent
    /\ req[2] = session[1] /\ session[2] = session[1]
    /\ pc[2] = "responded"
    /\ snap[2].created /\ prior[2] = NoIntent
    /\ session[2] \in DOMAIN sessions
    /\ hist[session[2]] = <<2>>
    /\ sessions[session[2]].turn_count = 1

\* ---------------------------------------------------------------------
\* Buckets at the end of the timeframe
\* ---------------------------------------------------------------------

\* the day after d
NextDay(d) ==
    IF Day(d) < DaysInMonth(Year(d), Month(d)) THEN d + 1
    ELSE IF Month(d) < 12 THEN MkDate(Year(d), Month(d) + 1, 1)
    ELSE MkDate(Year(d) + 1, 1, 1)

\* the days of the bucket [time_bucket_start, time_bucket_end) of row r all
\* lie within the inclusive timeframe of the intent
DaysWithinTimeframe(q_intent, r) ==
    /\ q_intent.timeframe_start = NoDate \/ q_intent.timeframe_start <= r.time_bucket_start
    /\ q_intent.timeframe_end = NoDate \/ r.time_bucket_end <= NextDay(q_intent.timeframe_end)

\* C27: get_metrics returns every stored row of the intent's societies and
\* aspects whose bucket days all lie within the intent's inclusive timeframe
\* (the rows of every month of year Y for a calendar_year intent over monthly
\* rows): a bucket is not left out for having its exclusive end one day past
\* timeframe_end.
C27_WholeBucketsReturned ==
    turn # <<>> =>
        \A j \in 1..Len(summary) :
            (/\ AskedFor([turn[1].intent EXCEPT !.timeframe_start = NoDate,
                                                !.timeframe_end = NoDate], summary[j])
             /\ DaysWithinTimeframe(turn[1].intent, summary[j]))
            => \E v \in Range(turn[1].metrics) : ValuesOf(v, summary[j])

\* ---------------------------------------------------------------------
\* Metrics and coverage of one turn
\* ---------------------------------------------------------------------

\* C28: a turn whose get_metrics returned at least one row has a coverage
\* with total_reviews_considered > 0 that lists every society of the
\* returned rows, also for an intent with empty society lists, where
\* get_metrics falls back to all societies.
C28_CoverageOfTheSameSocieties ==
    (turn # <<>> /\ turn[1].metrics # <<>>) =>
        /\ turn[1].coverage.total_reviews_considered > 0
        /\ \A v \in Range(turn[1].metrics) :
               \E c \in Range(turn[1].coverage.per_society_review_counts) :
                   c.building_society_id = v.building_society_id

\* ---------------------------------------------------------------------
\* Evidence for the focus area "overall"
\* ---------------------------------------------------------------------

\* C29: for an intent whose focus areas are exactly <<"overall">>,
\* get_evidence_snippets returns the snippets of the first `limit` candidate
\* documents that match the society, date and sentiment filters of the
\* intent, those that the search gives when no aspect is asked for: no
\* document is left out for having no "overall" entry in its aspects.
C29_OverallKeepsDocuments ==
    (turn # <<>> /\ turn[1].intent.focus_areas = <<"overall">>) =>
        turn[1].snippets =
            get_evidence_snippets(turn[1].ranked, turn[1].prefilter,
                                  [turn[1].intent EXCEPT !.focus_areas = <<>>], turn[1].limit)
====
